---- MODULE Spec2Model ----
(***************************************************************************)
(* A model of the DFP extraction and indicator pipeline (robo-2.0).        *)
(*                                                                         *)
(* The pipeline is sequential, so each component is modelled by its own    *)
(* specification over its own group of variables; the variables of the     *)
(* other components stay at their idle values:                             *)
(*   SpecRecon  consolidate_documents over the documents of one company    *)
(*   SpecMerge  the first-write-wins stores of one filing's extraction     *)
(*   SpecInd    _calculate_indicators_for_year                             *)
(*   SpecNorm   get_financial_profile and normalize_indicators             *)
(*   SpecCagr   calculate_cagr over a historical series                    *)
(*   SpecXlsx   parse_xlsx over one workbook                               *)
(*   SpecPdf    parse_dfp_pdf over the text of one document                *)
(*   SpecBatch  main and process_row over the rows of the input listing    *)
(*   SpecNum    _parse_number and _parse_value over one cell                *)
(*   SpecDl     _download_single over the outcomes of its attempts          *)
(*   SpecSend   MoniitorClient._send over the answers to its POSTs          *)
(*                                                                         *)
(* Numbers.  Python floats are modelled as exact rationals [n, d] in       *)
(* lowest terms with d > 0 (rounding is not modelled); Python's None is    *)
(* the record with d = 0, so that a value and None are comparable.         *)
(***************************************************************************)
EXTENDS Integers, Sequences, FiniteSets, TLC

VARIABLES
    \* ---- consolidate_documents (main.py)
    documents,            \* the list handed to consolidate_documents
    docIdx,               \* position of the `for document in documents` loop
    consolidated,         \* Dict[int, FieldMapping]
    selected_reference,   \* Dict[int, datetime]
    \* ---- one filing's extraction passes (main.py, pdf/xlsx parsers)
    parsed_by_year,       \* the YearRecord the running extractor fills
    doc_raw_by_year,      \* the filing's YearRecord in process_row
    passNo,               \* number of extraction passes merged so far
    extractor,            \* the running extractor: "xlsx", "pdf", or "done"
    \* ---- _calculate_indicators_for_year (indicators.py)
    raw,                  \* canonical FieldMapping of the year
    market_data,          \* MarketData
    indicators,           \* indicator name -> value or None
    missing_by_indicator, \* indicator name -> list of field names
    missing_inputs,       \* _build_missing_inputs(missing_by_indicator)
    indPc,                \* "input" before the call, "done" after it
    \* ---- normalize_indicators (normalization.py)
    ticker,               \* the row's ticker, as characters
    in_indicators,        \* the IndicatorSet handed to normalize_indicators
    normalized,           \* the returned mapping
    conversions,          \* the returned conversions count
    anomalies,            \* the returned anomalies count
    converted_keys,       \* the returned converted_keys list, as a set
    anomaly_keys,         \* the returned anomaly_keys list, as a set
    normPc,               \* "input" before the call, "done" after it
    \* ---- calculate_cagr (utils.py)
    series,               \* Dict[int, float]: year -> value
    cagr,                 \* the returned value
    cagrPc,               \* "input" before the call, "returned" after it
    \* ---- parse_xlsx (xlsx_parser_dfp.py)
    sheets,               \* the worksheets of the workbook, in workbook order
    reference_year,       \* the declared reference year, 0 for None
    xlsx_raw_by_year,     \* the returned YearRecord
    xlsx_currency_unit,   \* the returned currency unit
    xlsxPc,               \* "input" before the call, "returned" after it
    \* ---- parse_dfp_pdf (pdf_parser_dfp.py)
    pdf_pages,            \* the text of the document, a list of pages
    pdf_multiplier,       \* multiplier
    pdf_currency_unit,    \* currency_unit
    page_scopes,          \* the scope detected on each page
    selected_scopes,      \* the scopes whose pages are read
    pdf_by_year,          \* parsed_by_year of parse_dfp_pdf
    pageNo,               \* position of the page loop
    lineNo,               \* position of the line loop of the page
    page_section,         \* section of the page
    page_years,           \* years of the page
    pdfPc,                \* "open", "page", "line", "returned"
    \* ---- main and process_row (main.py)
    companies,            \* the rows of the input listing
    configured,           \* whether MONIITOR_API_KEY is set
    rowNo,                \* position of `for _, row in df.iterrows()`
    result,               \* result of the running process_row: errors and status
    has_parsing_errors,   \* has_parsing_errors
    documents_data,       \* documents_data, each filing as the set of its years
    filingNo,             \* position of `for download in downloads`
    pdfNo,                \* position of `for pdf_path in pdfs`
    doc_years,            \* the years of doc_raw_by_year
    calls,                \* the collaborators called for the running row, in order
    written,              \* the results written by write_result, in order
    batchPc,              \* position in main and process_row; "crashed" when an exception left main
    \* ---- _parse_number and _parse_value
    num_cell,             \* the cell handed to _parse_number
    number,               \* what _parse_number returned
    pdf_value,            \* what _parse_value returned for the cell's text
    numPc,                \* "input", "number" after _parse_number, "value" after _parse_value
    \* ---- _download_single (download_manager.py)
    dl_retries,           \* retries
    dl_attempt,           \* attempt, the index of `for attempt in range(retries)`
    dl_path,              \* the file at path: "absent" or the first bytes of its content
    dl_log,               \* the exception of every attempt made, "" for the one that returned
    dl_error,             \* the exception of the last failed attempt
    dlPc,                 \* "loop", "returned" or "raised"
    \* ---- MoniitorClient._send (moniitor_client.py)
    send_retries,         \* retries
    send_attempt,         \* attempt, the index of `for attempt in range(retries)`
    send_log,             \* what every POST issued met, in order
    send_result,          \* the value _send returned
    sendPc                \* "loop", "returned" or "raised"

reconVars == <<documents, docIdx, consolidated, selected_reference>>
mergeVars == <<parsed_by_year, doc_raw_by_year, passNo, extractor>>
indVars == <<raw, market_data, indicators, missing_by_indicator, missing_inputs, indPc>>
normVars == <<ticker, in_indicators, normalized, conversions, anomalies,
              converted_keys, anomaly_keys, normPc>>
cagrVars == <<series, cagr, cagrPc>>
xlsxVars == <<sheets, reference_year, xlsx_raw_by_year, xlsx_currency_unit, xlsxPc>>
pdfVars == <<pdf_pages, pdf_multiplier, pdf_currency_unit, page_scopes, selected_scopes,
             pdf_by_year, pageNo, lineNo, page_section, page_years, pdfPc>>
batchVars == <<companies, configured, rowNo, result, has_parsing_errors, documents_data,
               filingNo, pdfNo, doc_years, calls, written, batchPc>>
numVars == <<num_cell, number, pdf_value, numPc>>
dlVars == <<dl_retries, dl_attempt, dl_path, dl_log, dl_error, dlPc>>
sendVars == <<send_retries, send_attempt, send_log, send_result, sendPc>>
vars == <<reconVars, mergeVars, indVars, normVars, cagrVars, xlsxVars, pdfVars, batchVars, numVars, dlVars, sendVars>>

-----------------------------------------------------------------------------
(* Numbers and None *)

None == [n |-> 0, d |-> 0]

Abs(x) == IF x < 0 THEN -x ELSE x

RECURSIVE Gcd(_, _)
Gcd(a, b) == IF b = 0 THEN a ELSE Gcd(b, a % b)

\* the rational p/q (q # 0) in lowest terms with a positive denominator
Rat(p, q) ==
    LET g == Gcd(Abs(p), Abs(q))
        s == IF q < 0 THEN -1 ELSE 1
    IN  [n |-> s * (p \div g), d |-> Abs(q) \div g]

Num(x) == Rat(x, 1)

RAdd(a, b) == Rat(a.n * b.d + b.n * a.d, a.d * b.d)
RSub(a, b) == Rat(a.n * b.d - b.n * a.d, a.d * b.d)
RMul(a, b) == Rat(a.n * b.n, a.d * b.d)
RDiv(a, b) == Rat(a.n * b.d, a.d * b.n)
RNeg(a) == [n |-> -a.n, d |-> a.d]
RAbs(a) == [n |-> Abs(a.n), d |-> a.d]
RLe(a, b) == a.n * b.d <= b.n * a.d
RLt(a, b) == a.n * b.d < b.n * a.d

\* dict.get(key): None for a key the mapping does not hold
Get(m, k) == IF k \in DOMAIN m THEN m[k] ELSE None

EmptyMap == [k \in {} |-> None]

\* the subsets of S with at most k elements
RECURSIVE UpTo(_, _)
UpTo(S, k) ==
    IF k = 0 THEN {{}}
    ELSE LET P == UpTo(S, k - 1) IN P \cup {T \cup {x} : T \in P, x \in S}

-----------------------------------------------------------------------------
(* merge_raw_data: main.py 56-61 *)

\* a merge in which a present value of `new` replaces the value of `base`
merge_raw_data_overwriting(base, new) ==
    [k \in DOMAIN base \cup {j \in DOMAIN new : new[j] # None} |->
        IF k \in DOMAIN new /\ new[k] # None THEN new[k] ELSE base[k]]

\* main.py 56-61: a value of `new` is taken only where `base` has None
merge_raw_data(base, new) ==
    [k \in DOMAIN base \cup {j \in DOMAIN new : Get(base, j) = None /\ new[j] # None} |->
        IF Get(base, k) = None /\ k \in DOMAIN new /\ new[k] # None
        THEN new[k] ELSE base[k]]

-----------------------------------------------------------------------------
(* The reconciler: parse_reference_date and consolidate_documents          *)

\* datetime values are the integers yyyymmdd; datetime.min is 0001-01-01
datetime_min == 10101

DateTime(y, m, d) == y * 10000 + m * 100 + d

DaysInMonth(y, m) ==
    IF m \in {4, 6, 9, 11} THEN 30
    ELSE IF m = 2
         THEN (IF y % 4 = 0 /\ (y % 100 # 0 \/ y % 400 = 0) THEN 29 ELSE 28)
         ELSE 31

\* A reference date as published: absent (fmt "none"), the empty string
\* (fmt "empty"), or text in one of the layouts
\*   "ymd-"  YYYY-MM-DD     "dmy/"  DD/MM/YYYY     "ymd"  YYYYMMDD
\*   "dmy-"  DD-MM-YYYY (a layout strptime is not asked to try)
\* carrying the numbers y, m, d that the text spells.
RefText(fmt, y, m, d) == [fmt |-> fmt, y |-> y, m |-> m, d |-> d]

AcceptedFormats == {"ymd-", "dmy/", "ymd"}

\* datetime.strptime succeeds when the text has the layout and spells a date
StrptimeOk(value, fmt) ==
    /\ value.fmt = fmt
    /\ value.y \in 1..9999
    /\ value.m \in 1..12
    /\ value.d \in 1..DaysInMonth(value.y, value.m)

parse_reference_date(value) ==
    IF value.fmt \in {"none", "empty"} THEN datetime_min
    ELSE IF \E fmt \in AcceptedFormats : StrptimeOk(value, fmt)
         THEN DateTime(value.y, value.m, value.d)
         ELSE datetime_min

\* a selection in which the document read last always wins
SelectsAlways(reference_dt, current_dt) == TRUE

\* line 85: the document replaces the year's current selection
Selects(reference_dt, current_dt) == reference_dt > current_dt

\* a selection that fills the gaps of the new mapping from the one it replaces
ConsolidateYearMerging(cons, year, raw_of_year) ==
    IF year \in DOMAIN cons THEN merge_raw_data(raw_of_year, cons[year]) ELSE raw_of_year

\* main.py 86: what the year holds once the document is selected
ConsolidateYear(cons, year, raw_of_year) == raw_of_year

\* ---- inputs of the reconciler
MaxDocs == 2

FiscalYears == {2020, 2021, 2022}

ReferenceDates ==
    { RefText("none", 0, 0, 0),          \* no reference date
      RefText("dmy-", 2022, 6, 1),       \* "01-06-2022": unknown layout
      RefText("ymd-", 2022, 1, 1),       \* "2022-01-01"
      RefText("dmy/", 2022, 6, 1),       \* "01/06/2022"
      RefText("ymd", 2022, 6, 1) }       \* "20220601": same day as the former

\* the FieldMappings a filing may hold for a year (two fields, in turn
\* absent, so that a mapping mixed from two filings is none of them)
YearMappings ==
    { [receita_liquida |-> Num(100), lucro_liquido |-> None],
      [receita_liquida |-> None, lucro_liquido |-> Num(7)] }

\* the fiscal years one filing reports: a window of consecutive years
YearWindows ==
    { {2020}, {2021}, {2022}, {2020, 2021}, {2021, 2022}, {2020, 2021, 2022} }

YearRecords == { [y \in w |-> m] : w \in YearWindows, m \in YearMappings }

\* main.py 337-358: a documents_data entry
DocumentEntry(reference_date, raw_by_year) ==
    [ reference_date |-> reference_date,
      reference_datetime |-> parse_reference_date(reference_date),
      raw_by_year |-> raw_by_year ]

DocumentEntries ==
    { DocumentEntry(rd, rby) : rd \in ReferenceDates, rby \in YearRecords }

DocumentLists == UNION { [1..k -> DocumentEntries] : k \in 0..MaxDocs }

ReconIdle ==
    /\ documents = <<>>
    /\ docIdx = 0
    /\ consolidated = EmptyMap
    /\ selected_reference = EmptyMap

ReconInit ==
    /\ documents \in DocumentLists
    /\ docIdx = 1
    /\ consolidated = EmptyMap
    /\ selected_reference = EmptyMap

\* main.py 80-87: the body of `for document in documents`, from the two
\* dictionaries before the document to the two after it
consolidate_step(document, cons, selected) ==
    LET reference_dt == document.reference_datetime
        raw_by_year == document.raw_by_year
        taken == { y \in DOMAIN raw_by_year :
                     Selects(reference_dt,
                             IF y \in DOMAIN selected
                             THEN selected[y] ELSE datetime_min) }
    IN  [ consolidated |->
              [y \in DOMAIN cons \cup taken |->
                  IF y \in taken
                  THEN ConsolidateYear(cons, y, raw_by_year[y])
                  ELSE cons[y]],
          selected_reference |->
              [y \in DOMAIN selected \cup taken |->
                  IF y \in taken THEN reference_dt ELSE selected[y]] ]

RECURSIVE consolidate_upto(_, _)
\* main.py 77-87: the two dictionaries after the first k documents
consolidate_upto(docs, k) ==
    IF k = 0
    THEN [consolidated |-> EmptyMap, selected_reference |-> EmptyMap]
    ELSE LET before == consolidate_upto(docs, k - 1)
         IN  consolidate_step(docs[k], before.consolidated, before.selected_reference)

\* main.py 76-89: the value consolidate_documents returns
consolidate_documents(docs) == consolidate_upto(docs, Len(docs)).consolidated

\* main.py 80-87: one iteration of `for document in documents`
ConsolidateDocument ==
    /\ docIdx \in 1..Len(documents)
    /\ \E after \in {consolidate_step(documents[docIdx], consolidated, selected_reference)} :
          /\ consolidated' = after.consolidated
          /\ selected_reference' = after.selected_reference
    /\ docIdx' = docIdx + 1
    /\ UNCHANGED documents
    /\ UNCHANGED <<mergeVars, indVars, normVars, cagrVars, xlsxVars, pdfVars, batchVars, numVars, dlVars, sendVars>>

ReconDone == docIdx = Len(documents) + 1

ReconNext == ConsolidateDocument

-----------------------------------------------------------------------------
(* One filing's extraction: the stores of the extractors and the merges   *)
(* of process_row.  parsed_by_year is the YearRecord the running extractor *)
(* fills; process_row merges it into the filing's doc_raw_by_year when the *)
(* extractor returns, and the next extractor starts from an empty record.  *)

MaxPasses == 2

MergeYears == {2021, 2022}

MergeFields == {"ebit", "amortizacao"}

\* what a matched PDF line offers: a parsed float, 0.0 included
PdfValues == {Num(0), Num(5)}

\* what a spreadsheet cell offers (_parse_number): a float or None
XlsxValues == {None, Num(5)}

\* _parse_precision: 1 or 1000
Multipliers == {1, 1000}

\* xlsx_parser_dfp.py 317
allowed_years(base_year) == {base_year, base_year - 1, base_year - 2}

XlsxBaseYears == {2022}

\* pdf_parser_dfp.py 143-152
store_value(target, year, field, value) ==
    LET old == IF year \in DOMAIN target THEN target[year] ELSE EmptyMap
    IN  [y \in DOMAIN target \cup {year} |->
            IF y # year THEN target[y]
            ELSE IF Get(old, field) = None
                 THEN [f \in DOMAIN old \cup {field} |-> IF f = field THEN value ELSE old[f]]
                 ELSE old]

\* xlsx_parser_dfp.py 323-328: one iteration of `for year, value in values.items()`
xlsx_store(target, base_year, year, field, value, multiplier) ==
    IF value = None \/ year \notin allowed_years(base_year) THEN target
    ELSE LET old == IF year \in DOMAIN target THEN target[year] ELSE EmptyMap
         IN  [y \in DOMAIN target \cup {year} |->
                 IF y # year THEN target[y]
                 ELSE IF Get(old, field) = None
                      THEN [f \in DOMAIN old \cup {field} |->
                               IF f = field THEN RMul(value, Num(multiplier)) ELSE old[f]]
                      ELSE old]

\* main.py 304-307 and 325-328: `for year, parsed in parsed_by_year.items()`
merge_years(doc, parsed) ==
    [y \in DOMAIN doc \cup DOMAIN parsed |->
        IF y \in DOMAIN parsed
        THEN merge_raw_data(IF y \in DOMAIN doc THEN doc[y] ELSE EmptyMap, parsed[y])
        ELSE doc[y]]

MergeIdle ==
    /\ parsed_by_year = EmptyMap
    /\ doc_raw_by_year = EmptyMap
    /\ passNo = 0
    /\ extractor = "done"

\* main.py 270-271, pdf_parser_dfp.py 162, xlsx_parser_dfp.py 231
\* main.py 273: the workbook of the archive is read first when there is one
MergeInit ==
    /\ parsed_by_year = EmptyMap
    /\ doc_raw_by_year = EmptyMap
    /\ passNo = 0
    /\ extractor \in {"xlsx", "pdf"}

\* parse_dfp_pdf stores the value of a matched line
StoreValue ==
    /\ extractor = "pdf"
    /\ passNo < MaxPasses
    /\ \E year \in MergeYears, field \in MergeFields, value \in PdfValues :
          parsed_by_year' = store_value(parsed_by_year, year, field, value)
    /\ UNCHANGED <<doc_raw_by_year, passNo, extractor>>
    /\ UNCHANGED <<reconVars, indVars, normVars, cagrVars, xlsxVars, pdfVars, batchVars, numVars, dlVars, sendVars>>

\* parse_xlsx stores one cell of a matched row
XlsxStore ==
    /\ extractor = "xlsx"
    /\ passNo < MaxPasses
    /\ \E base_year \in XlsxBaseYears, year \in MergeYears, field \in MergeFields,
          value \in XlsxValues, multiplier \in Multipliers :
          parsed_by_year' =
              xlsx_store(parsed_by_year, base_year, year, field, value, multiplier)
    /\ UNCHANGED <<doc_raw_by_year, passNo, extractor>>
    /\ UNCHANGED <<reconVars, indVars, normVars, cagrVars, xlsxVars, pdfVars, batchVars, numVars, dlVars, sendVars>>

\* main.py 304-309, 312-328: the extractor returns and process_row merges its
\* YearRecord; the PDFs are read only if the workbook gave no year
\* (doc_used_xlsx), one pass for each PDF
MergePass ==
    /\ extractor \in {"xlsx", "pdf"}
    /\ passNo < MaxPasses
    /\ doc_raw_by_year' = merge_years(doc_raw_by_year, parsed_by_year)
    /\ parsed_by_year' = EmptyMap
    /\ passNo' = passNo + 1
    /\ extractor' = IF extractor = "xlsx" /\ parsed_by_year # EmptyMap
                    THEN "done" ELSE "pdf"
    /\ UNCHANGED <<reconVars, indVars, normVars, cagrVars, xlsxVars, pdfVars, batchVars, numVars, dlVars, sendVars>>

MergeNext == StoreValue \/ XlsxStore \/ MergePass

-----------------------------------------------------------------------------
(* The indicator engine: indicators.py                                     *)

RawFields ==
    { "lucro_liquido", "patrimonio_liquido", "ativo_total", "ativo_circulante",
      "passivo_circulante", "receita_liquida", "lucro_bruto", "ebit", "depreciacao",
      "amortizacao", "qtd_acoes_total", "passivo_total", "emprestimos_cp",
      "emprestimos_lp", "caixa", "estoques" }

MarketFields == {"current_price", "market_cap", "enterprise_value", "dividendos_12m"}

\* indicators.py 4-5
_is_present(value) == value # None

\* indicators.py 8-9
_gt0(value) == value # None /\ value.n > 0

\* indicators.py 12-15
_safe_div(numerator, denominator) ==
    IF numerator = None \/ denominator = None \/ denominator.n = 0
    THEN None
    ELSE RDiv(numerator, denominator)

\* indicators.py 34: the default statutory tax rate, 0.34
aliquota_ir == Rat(34, 100)

\* an EBITDA that leaves the amortization out
ebitda_without_amortizacao(r) ==
    IF _is_present(r["ebit"]) /\ _is_present(r["depreciacao"]) /\ _is_present(r["amortizacao"])
    THEN RAdd(r["ebit"], r["depreciacao"])
    ELSE None

\* indicators.py 62-64
ebitda_of(r) ==
    IF _is_present(r["ebit"]) /\ _is_present(r["depreciacao"]) /\ _is_present(r["amortizacao"])
    THEN RAdd(RAdd(r["ebit"], r["depreciacao"]), r["amortizacao"])
    ELSE None

\* indicators.py 70-72
divida_bruta_of(r) ==
    IF _is_present(r["emprestimos_cp"]) /\ _is_present(r["emprestimos_lp"])
    THEN RAdd(r["emprestimos_cp"], r["emprestimos_lp"])
    ELSE None

\* indicators.py 78-80
divida_liquida_of(r) ==
    IF _is_present(divida_bruta_of(r)) /\ _is_present(r["caixa"])
    THEN RSub(divida_bruta_of(r), r["caixa"])
    ELSE None

\* indicators.py 86-88
capital_investido_of(r) ==
    IF _is_present(r["patrimonio_liquido"]) /\ _is_present(divida_liquida_of(r))
    THEN RAdd(r["patrimonio_liquido"], divida_liquida_of(r))
    ELSE None

\* indicators.py 94-96
nopat_of(r) ==
    IF _is_present(r["ebit"]) THEN RMul(r["ebit"], RSub(Num(1), aliquota_ir)) ELSE None

\* indicators.py 102-104
capital_giro_of(r) ==
    IF _is_present(r["ativo_circulante"]) /\ _is_present(r["passivo_circulante"])
    THEN RSub(r["ativo_circulante"], r["passivo_circulante"])
    ELSE None

\* indicators.py 110-113
ativo_circ_liq_of(r) ==
    IF _is_present(r["ativo_circulante"]) /\ _is_present(r["passivo_circulante"])
    THEN LET estoques_val == IF _is_present(r["estoques"]) THEN r["estoques"] ELSE Num(0)
         IN  RSub(RSub(r["ativo_circulante"], r["passivo_circulante"]), estoques_val)
    ELSE None

\* indicators.py 119
vpa_of(r) == _safe_div(r["patrimonio_liquido"], r["qtd_acoes_total"])

\* indicators.py 125-127
lpa_of(r) ==
    IF _gt0(r["lucro_liquido"]) /\ _gt0(r["qtd_acoes_total"])
    THEN RDiv(r["lucro_liquido"], r["qtd_acoes_total"])
    ELSE None

\* the price multiples, indicators.py 128-197: `if _gt0(a) and _gt0(b): a / b`
gt0_div(a, b) == IF _gt0(a) /\ _gt0(b) THEN RDiv(a, b) ELSE None

\* the keys of the returned indicators, in the order the code sets them
IndicatorOrder ==
    << "p_l", "p_vp", "ev_ebitda", "p_ebit", "p_ebitda", "p_ativo", "p_cap_giro",
       "p_ativo_circ_liq", "payout_ratio", "roe", "roa", "roic", "m_bruta", "m_ebitda",
       "m_ebit", "m_liquida", "div_liquida_ebitda", "div_liquida_ebit", "div_liquida_pl",
       "passivo_ativo", "liq_corrente", "pl_ativo", "giro_ativos", "vpa",
       "patrimonio_liquido" >>

IndicatorNames == { IndicatorOrder[i] : i \in 1..Len(IndicatorOrder) }

\* indicators.py 128-323: the value of each key
IndicatorValue(name, r, md) ==
    CASE name = "p_l" -> gt0_div(md["current_price"], lpa_of(r))
      [] name = "p_vp" ->
            IF _gt0(md["current_price"]) /\ _gt0(r["patrimonio_liquido"])
               /\ _gt0(r["qtd_acoes_total"]) /\ _gt0(vpa_of(r))
            THEN RDiv(md["current_price"], vpa_of(r)) ELSE None
      [] name = "ev_ebitda" -> gt0_div(md["enterprise_value"], ebitda_of(r))
      [] name = "p_ebit" -> gt0_div(md["market_cap"], r["ebit"])
      [] name = "p_ebitda" -> gt0_div(md["market_cap"], ebitda_of(r))
      [] name = "p_ativo" -> gt0_div(md["market_cap"], r["ativo_total"])
      [] name = "p_cap_giro" -> gt0_div(md["market_cap"], capital_giro_of(r))
      [] name = "p_ativo_circ_liq" -> gt0_div(md["market_cap"], ativo_circ_liq_of(r))
      [] name = "payout_ratio" -> _safe_div(md["dividendos_12m"], r["lucro_liquido"])
      [] name = "roe" -> _safe_div(r["lucro_liquido"], r["patrimonio_liquido"])
      [] name = "roa" -> _safe_div(r["lucro_liquido"], r["ativo_total"])
      [] name = "roic" -> _safe_div(nopat_of(r), capital_investido_of(r))
      [] name = "m_bruta" -> _safe_div(r["lucro_bruto"], r["receita_liquida"])
      [] name = "m_ebitda" -> _safe_div(ebitda_of(r), r["receita_liquida"])
      [] name = "m_ebit" -> _safe_div(r["ebit"], r["receita_liquida"])
      [] name = "m_liquida" -> _safe_div(r["lucro_liquido"], r["receita_liquida"])
      [] name = "div_liquida_ebitda" -> _safe_div(divida_liquida_of(r), ebitda_of(r))
      [] name = "div_liquida_ebit" -> _safe_div(divida_liquida_of(r), r["ebit"])
      [] name = "div_liquida_pl" -> _safe_div(divida_liquida_of(r), r["patrimonio_liquido"])
      [] name = "passivo_ativo" -> _safe_div(r["passivo_total"], r["ativo_total"])
      [] name = "liq_corrente" -> _safe_div(r["ativo_circulante"], r["passivo_circulante"])
      [] name = "pl_ativo" -> _safe_div(r["patrimonio_liquido"], r["ativo_total"])
      [] name = "giro_ativos" -> _safe_div(r["receita_liquida"], r["ativo_total"])
      [] name = "vpa" -> vpa_of(r)
      [] name = "patrimonio_liquido" -> r["patrimonio_liquido"]

\* the field lists handed to _record_missing, indicators.py 132-321
RecordedFields(name) ==
    CASE name = "p_l" -> <<"current_price", "lucro_liquido", "qtd_acoes_total">>
      [] name = "p_vp" -> <<"current_price", "patrimonio_liquido", "qtd_acoes_total">>
      [] name = "ev_ebitda" -> <<"enterprise_value", "ebit", "depreciacao", "amortizacao">>
      [] name = "p_ebit" -> <<"market_cap", "ebit">>
      [] name = "p_ebitda" -> <<"market_cap", "ebit", "depreciacao", "amortizacao">>
      [] name = "p_ativo" -> <<"market_cap", "ativo_total">>
      [] name = "p_cap_giro" -> <<"market_cap", "ativo_circulante", "passivo_circulante">>
      [] name = "p_ativo_circ_liq" ->
            <<"market_cap", "ativo_circulante", "passivo_circulante", "estoques">>
      [] name = "payout_ratio" -> <<"dividendos_12m", "lucro_liquido">>
      [] name = "roe" -> <<"lucro_liquido", "patrimonio_liquido">>
      [] name = "roa" -> <<"lucro_liquido", "ativo_total">>
      [] name = "roic" ->
            <<"ebit", "patrimonio_liquido", "emprestimos_cp", "emprestimos_lp", "caixa">>
      [] name = "m_bruta" -> <<"lucro_bruto", "receita_liquida">>
      [] name = "m_ebitda" -> <<"ebit", "depreciacao", "amortizacao", "receita_liquida">>
      [] name = "m_ebit" -> <<"ebit", "receita_liquida">>
      [] name = "m_liquida" -> <<"lucro_liquido", "receita_liquida">>
      [] name = "div_liquida_ebitda" ->
            <<"emprestimos_cp", "emprestimos_lp", "caixa", "ebit", "depreciacao",
              "amortizacao">>
      [] name = "div_liquida_ebit" -> <<"emprestimos_cp", "emprestimos_lp", "caixa", "ebit">>
      [] name = "div_liquida_pl" ->
            <<"emprestimos_cp", "emprestimos_lp", "caixa", "patrimonio_liquido">>
      [] name = "passivo_ativo" -> <<"passivo_total", "ativo_total">>
      [] name = "liq_corrente" -> <<"ativo_circulante", "passivo_circulante">>
      [] name = "pl_ativo" -> <<"patrimonio_liquido", "ativo_total">>
      [] name = "giro_ativos" -> <<"receita_liquida", "ativo_total">>
      [] name = "vpa" -> <<"patrimonio_liquido", "qtd_acoes_total">>
      [] name = "patrimonio_liquido" -> <<>>

\* the keys for which `if indicators[key] is None: _record_missing(...)` exists
RecordingNames == IndicatorNames \ {"patrimonio_liquido"}

\* indicators.py 18-19 with the `is None` tests around every call of it
_record_missing(inds) ==
    [name \in {k \in RecordingNames : inds[k] = None} |-> RecordedFields(name)]

SeqSet(s) == { s[i] : i \in 1..Len(s) }

\* indicators.py 25-27: append the fields that `acc` does not hold yet
\* (no list handed to _record_missing names a field twice)
AppendNew(acc, fields) == acc \o SelectSeq(fields, LAMBDA f : f \notin SeqSet(acc))

\* indicators.py 22-28, over the dict's values in insertion order
RECURSIVE build_missing_from(_, _, _)
build_missing_from(missing, i, acc) ==
    IF i > Len(IndicatorOrder) THEN acc
    ELSE IF IndicatorOrder[i] \in DOMAIN missing
         THEN build_missing_from(missing, i + 1, AppendNew(acc, missing[IndicatorOrder[i]]))
         ELSE build_missing_from(missing, i + 1, acc)

_build_missing_inputs(missing) == build_missing_from(missing, 1, <<>>)

\* ---- inputs of the indicator engine
MaxVaried == 2

InputFields == RawFields \cup MarketFields

\* no field extracted, no market datum supplied
AbsentInputs == [f \in InputFields |-> None]

\* a company with every input present and positive
ExampleInputs ==
    [f \in InputFields |->
        CASE f = "lucro_liquido" -> Num(300)
          [] f = "patrimonio_liquido" -> Num(1000)
          [] f = "ativo_total" -> Num(4000)
          [] f = "ativo_circulante" -> Num(900)
          [] f = "passivo_circulante" -> Num(400)
          [] f = "receita_liquida" -> Num(2000)
          [] f = "lucro_bruto" -> Num(800)
          [] f = "ebit" -> Num(200)
          [] f = "depreciacao" -> Num(30)
          [] f = "amortizacao" -> Num(20)
          [] f = "qtd_acoes_total" -> Num(100)
          [] f = "passivo_total" -> Num(3000)
          [] f = "emprestimos_cp" -> Num(100)
          [] f = "emprestimos_lp" -> Num(400)
          [] f = "caixa" -> Num(50)
          [] f = "estoques" -> Num(100)
          [] f = "current_price" -> Num(15)
          [] f = "market_cap" -> Num(1500)
          [] f = "enterprise_value" -> Num(2500)
          [] f = "dividendos_12m" -> Num(60)]

\* what a varied field is set to
VariedValues == {None, Num(-3), Num(0), Num(3)}

\* a base with at most MaxVaried fields set to other values
InputMaps ==
    { [f \in InputFields |-> IF f \in DOMAIN v THEN v[f] ELSE base[f]] :
        base \in {AbsentInputs, ExampleInputs},
        v \in UNION { [S -> VariedValues] : S \in UpTo(InputFields, MaxVaried) } }

IndIdle ==
    /\ raw = EmptyMap
    /\ market_data = EmptyMap
    /\ indicators = EmptyMap
    /\ missing_by_indicator = EmptyMap
    /\ missing_inputs = <<>>
    /\ indPc = "idle"

IndInit ==
    /\ \E m \in InputMaps :
          /\ raw = [f \in RawFields |-> m[f]]
          /\ market_data = [f \in MarketFields |-> m[f]]
    /\ indicators = EmptyMap
    /\ missing_by_indicator = EmptyMap
    /\ missing_inputs = <<>>
    /\ indPc = "input"

\* indicators.py 31-330
CalculateIndicatorsForYear ==
    /\ indPc = "input"
    /\ \E inds \in {[name \in IndicatorNames |-> IndicatorValue(name, raw, market_data)]} :
       \E missing \in {_record_missing(inds)} :
          /\ indicators' = inds
          /\ missing_by_indicator' = missing
          /\ missing_inputs' = _build_missing_inputs(missing)
    /\ indPc' = "done"
    /\ UNCHANGED <<raw, market_data>>
    /\ UNCHANGED <<reconVars, mergeVars, normVars, cagrVars, xlsxVars, pdfVars, batchVars, numVars, dlVars, sendVars>>

IndNext == CalculateIndicatorsForYear

-----------------------------------------------------------------------------
(* The normalizer: financial_universe.py and normalization.py              *)

\* text primitives over strings
Contains(s, sub) ==
    \E i \in 1..(Len(s) - Len(sub) + 1) : SubSeq(s, i, i + Len(sub) - 1) = sub

StartsWith(s, prefix) == Len(prefix) <= Len(s) /\ SubSeq(s, 1, Len(prefix)) = prefix

EndsWith(s, suffix) ==
    Len(suffix) <= Len(s) /\ SubSeq(s, Len(s) - Len(suffix) + 1, Len(s)) = suffix

LowerCase == "abcdefghijklmnopqrstuvwxyz"

UpperCase == "ABCDEFGHIJKLMNOPQRSTUVWXYZ"

UpperChar(c) ==
    IF \E i \in 1..Len(LowerCase) : SubSeq(LowerCase, i, i) = c
    THEN LET i == CHOOSE j \in 1..Len(LowerCase) : SubSeq(LowerCase, j, j) = c
         IN  SubSeq(UpperCase, i, i)
    ELSE c

\* str.upper()
RECURSIVE Upper(_)
Upper(s) == IF Len(s) = 0 THEN "" ELSE UpperChar(SubSeq(s, 1, 1)) \o Upper(SubSeq(s, 2, Len(s)))

\* str.strip(), for text whose only white space is the blank
RECURSIVE Strip(_)
Strip(s) ==
    IF Len(s) = 0 THEN s
    ELSE IF SubSeq(s, 1, 1) = " " THEN Strip(SubSeq(s, 2, Len(s)))
    ELSE IF SubSeq(s, Len(s), Len(s)) = " " THEN Strip(SubSeq(s, 1, Len(s) - 1))
    ELSE s

\* financial_universe.py 1-22
FINANCIAL_TICKERS ==
    { "BBAS3", "BBDC3", "BBDC4", "ITUB3", "ITUB4", "SANB3", "SANB4", "BPAC3", "BPAC11",
      "BRSR6", "BAZA3", "BEES3", "BEES4", "BMEB3", "BNBR3", "PINE4", "ABCB4", "BBSE3",
      "IRBR3", "PSSA3" }

\* financial_universe.py 52-54, the first component of the returned pair
get_financial_profile(t) == Strip(Upper(t)) \in FINANCIAL_TICKERS

\* normalization.py 6-8
PERCENT_HINTS == {"m_", "margin", "roe", "roa", "payout", "ratio"}

PERCENT_EXACT_KEYS == {"dividend_yield", "margem_liquida", "margem_ebitda", "margem_bruta"}

PERCENT_SUFFIXES == {"_margin", "_ratio"}

\* normalization.py 11-16
is_percent_indicator(key) ==
    \/ key \in PERCENT_EXACT_KEYS
    \/ \E hint \in PERCENT_HINTS : StartsWith(key, hint)
    \/ \E hint \in PERCENT_HINTS : Contains(key, hint)
    \/ \E suffix \in PERCENT_SUFFIXES : EndsWith(key, suffix)

\* a rescaling without the `abs(value) <= 1` branch
normalize_ratio_always_divides(value) ==
    IF value = None THEN None
    ELSE IF RLe(RAbs(value), Num(1000)) THEN RDiv(value, Num(100))
    ELSE None

\* normalization.py 19-27
normalize_ratio(value) ==
    IF value = None THEN None
    ELSE IF RLe(RAbs(value), Num(1)) THEN value
    ELSE IF RLe(RAbs(value), Num(1000)) THEN RDiv(value, Num(100))
    ELSE None

\* the keys of the IndicatorSet process_row hands over (main.py 406-408)
IndicatorKeys == IndicatorNames \cup {"cagr_receitas_5", "cagr_lucros_5"}

\* the keys the loop of normalization.py 44-60 treats as percentages
\* (percent_keys is never passed: percent_keys_set is empty)
PercentKeys == { key \in IndicatorKeys : is_percent_indicator(key) }

EbitdaKeys == { key \in IndicatorKeys : Contains(key, "ebitda") }

\* a loop that rescales every present value, whatever its key
normalized_in_loop_every_key(inds, key) ==
    IF inds[key] # None THEN normalize_ratio(inds[key]) ELSE inds[key]

\* normalization.py 44-60: the value of a key after the loop
normalized_in_loop(inds, key) ==
    IF inds[key] # None /\ key \in PercentKeys THEN normalize_ratio(inds[key]) ELSE inds[key]

\* a normalizer without the financial rule
null_ebitda_never(norm, is_financial) == norm

\* normalization.py 62-65
null_ebitda(norm, is_financial) ==
    IF is_financial
    THEN [key \in DOMAIN norm |-> IF key \in EbitdaKeys THEN None ELSE norm[key]]
    ELSE norm

\* normalization.py 30-67: the returned tuple
normalize_indicators(inds, is_financial) ==
    LET touched == { key \in DOMAIN inds : inds[key] # None /\ key \in PercentKeys }
        anomalous == { key \in touched : normalize_ratio(inds[key]) = None }
        converted == { key \in touched \ anomalous : normalize_ratio(inds[key]) # inds[key] }
    IN  [ normalized |->
              null_ebitda([key \in DOMAIN inds |-> normalized_in_loop(inds, key)],
                          is_financial),
          conversions |-> Cardinality(converted),
          anomalies |-> Cardinality(anomalous),
          converted_keys |-> converted,
          anomaly_keys |-> anomalous ]

\* ---- inputs of the normalizer
MaxNormVaried == 1

\* tickers as the input listing may spell them
RowTickers == {"BBAS3", " itub4 ", "PETR4"}

\* 0.08, -1, 45, 100, -250, 1001
NormValues == {Rat(2, 25), Num(-1), Num(45), Num(100), Num(-250), Num(1001)}

\* nothing computed
AbsentIndicators == [key \in IndicatorKeys |-> None]

\* every indicator computed; the percentages arrive in mixed scales
ExampleIndicators ==
    [key \in IndicatorKeys |->
        CASE key = "roe" -> Num(30)
          [] key = "roa" -> Num(1500)
          [] key = "payout_ratio" -> Rat(2, 25)
          [] key = "m_bruta" -> Rat(2, 5)
          [] key = "m_ebitda" -> Rat(1, 8)
          [] key = "m_ebit" -> Num(10)
          [] key = "m_liquida" -> Num(250)
          [] key = "roic" -> Rat(33, 250)
          [] key = "vpa" -> Num(10)
          [] key = "patrimonio_liquido" -> Num(1000)
          [] key = "liq_corrente" -> Rat(9, 4)
          [] key \in {"cagr_receitas_5", "cagr_lucros_5"} -> Rat(1, 10)
          [] OTHER -> Num(5)]

\* a base IndicatorSet with at most MaxNormVaried indicators set to other values
IndicatorSets ==
    { [key \in IndicatorKeys |-> IF key \in DOMAIN v THEN v[key] ELSE base[key]] :
        base \in {AbsentIndicators, ExampleIndicators},
        v \in UNION { [S -> NormValues \cup {None}] : S \in UpTo(IndicatorKeys, MaxNormVaried) } }

NormIdle ==
    /\ ticker = ""
    /\ in_indicators = EmptyMap
    /\ normalized = EmptyMap
    /\ conversions = 0
    /\ anomalies = 0
    /\ converted_keys = {}
    /\ anomaly_keys = {}
    /\ normPc = "idle"

NormInit ==
    /\ ticker \in RowTickers
    /\ in_indicators \in IndicatorSets
    /\ normalized = EmptyMap
    /\ conversions = 0
    /\ anomalies = 0
    /\ converted_keys = {}
    /\ anomaly_keys = {}
    /\ normPc = "input"

\* main.py 160, 225: the profile of the row's ticker; then normalization.py 30-67
NormalizeIndicators ==
    /\ normPc = "input"
    /\ \E is_financial \in {get_financial_profile(Strip(Upper(ticker)))} :
       \E out \in {normalize_indicators(in_indicators, is_financial)} :
          /\ normalized' = out.normalized
          /\ conversions' = out.conversions
          /\ anomalies' = out.anomalies
          /\ converted_keys' = out.converted_keys
          /\ anomaly_keys' = out.anomaly_keys
    /\ normPc' = "done"
    /\ UNCHANGED <<ticker, in_indicators>>
    /\ UNCHANGED <<reconVars, mergeVars, indVars, cagrVars, xlsxVars, pdfVars, batchVars, numVars, dlVars, sendVars>>

NormNext == NormalizeIndicators

-----------------------------------------------------------------------------
(* The growth rate over the historical series: utils.py calculate_cagr     *)

\* main.py 384-385: `years=5`
cagr_years == 5

Min(S) == CHOOSE x \in S : \A y \in S : x <= y
Max(S) == CHOOSE x \in S : \A y \in S : x >= y

\* utils.py 75-77: the float round((end_value / start_value) ** (1 / actual_years) - 1, 4),
\* kept as the quotient and the exponent it is computed from
CagrValue(start_value, end_value, actual_years) ==
    [ratio |-> RDiv(end_value, start_value), actual_years |-> actual_years]

\* a growth rate computed over whatever span the series has
calculate_cagr_any_span(s, years) ==
    IF DOMAIN s = {} \/ Cardinality(DOMAIN s) < 2 THEN None
    ELSE LET start_year == Min(DOMAIN s)
             end_year == Max(DOMAIN s)
         IN  IF RLe(s[start_year], Num(0)) \/ RLe(s[end_year], Num(0)) THEN None
             ELSE CagrValue(s[start_year], s[end_year], end_year - start_year)

\* utils.py 58-77
calculate_cagr(s, years) ==
    IF DOMAIN s = {} \/ Cardinality(DOMAIN s) < 2 THEN None
    ELSE LET start_year == Min(DOMAIN s)
             end_year == Max(DOMAIN s)
         IN  IF end_year - start_year < years - 1 THEN None
             ELSE IF RLe(s[start_year], Num(0)) \/ RLe(s[end_year], Num(0)) THEN None
             ELSE CagrValue(s[start_year], s[end_year], end_year - start_year)

\* ---- inputs of calculate_cagr
MaxSeriesLen == 4

SeriesYears == 2017..2022

\* main.py 368-371: the values of a series are the floats of the canonical record
SeriesValues == {Num(-3), Num(0), Num(100), Num(200)}

SeriesInputs == UNION { [S -> SeriesValues] : S \in UpTo(SeriesYears, MaxSeriesLen) }

CagrIdle ==
    /\ series = EmptyMap
    /\ cagr = None
    /\ cagrPc = "idle"

CagrInit ==
    /\ series \in SeriesInputs
    /\ cagr = None
    /\ cagrPc = "input"

\* main.py 384: cagr_receitas_5 = calculate_cagr(receita_series, years=5)
CalculateCagr ==
    /\ cagrPc = "input"
    /\ cagr' = calculate_cagr(series, cagr_years)
    /\ cagrPc' = "returned"
    /\ UNCHANGED series
    /\ UNCHANGED <<reconVars, mergeVars, indVars, normVars, xlsxVars, pdfVars, batchVars, numVars, dlVars, sendVars>>

CagrNext == CalculateCagr

-----------------------------------------------------------------------------
(* The spreadsheet extractor: xlsx_parser_dfp.py parse_xlsx                *)
(*                                                                         *)
(* A worksheet is [name, date_year, columns, rows]: its normalized name,   *)
(* the year the date scan of _infer_base_year_from_df and of the first     *)
(* rows finds in it (0 for none), its normalized column names in sheet     *)
(* order, and its rows.  A row is [text, values]: its text cells and its   *)
(* numeric cells as _parse_number returns them, by column name.  A year    *)
(* that is None in the code is 0, a column that is None is "".             *)

LowerChar(c) ==
    CASE c = "A" -> "a" [] c = "B" -> "b" [] c = "C" -> "c" [] c = "D" -> "d" [] c = "E" -> "e"
      [] c = "F" -> "f" [] c = "G" -> "g" [] c = "H" -> "h" [] c = "I" -> "i" [] c = "J" -> "j"
      [] c = "K" -> "k" [] c = "L" -> "l" [] c = "M" -> "m" [] c = "N" -> "n" [] c = "O" -> "o"
      [] c = "P" -> "p" [] c = "Q" -> "q" [] c = "R" -> "r" [] c = "S" -> "s" [] c = "T" -> "t"
      [] c = "U" -> "u" [] c = "V" -> "v" [] c = "W" -> "w" [] c = "X" -> "x" [] c = "Y" -> "y"
      [] c = "Z" -> "z" [] OTHER -> c

\* str.lower()
RECURSIVE Lower(_)
Lower(s) == IF Len(s) = 0 THEN "" ELSE LowerChar(SubSeq(s, 1, 1)) \o Lower(SubSeq(s, 2, Len(s)))

\* xlsx_parser_dfp.py 64-68: the first column whose name holds every token
_get_column_by_tokens(columns, tokens) ==
    IF \E i \in 1..Len(columns) : \A t \in tokens : Contains(columns[i], t)
    THEN columns[Min({ i \in 1..Len(columns) : \A t \in tokens : Contains(columns[i], t) })]
    ELSE ""

\* the `or` chains of lines 183 and 286
FirstColumn(cols) ==
    IF \E i \in 1..Len(cols) : cols[i] # ""
    THEN cols[Min({ i \in 1..Len(cols) : cols[i] # "" })]
    ELSE ""

\* row.get(col) of a text cell and of a numeric cell
RowText(row, col) == IF col \in DOMAIN row.text THEN row.text[col] ELSE ""
RowValue(row, col) == IF col \in DOMAIN row.values THEN row.values[col] ELSE None

\* xlsx_parser_dfp.py 71-74
_parse_precision(value) == IF value # "" /\ Contains(Lower(value), "mil") THEN 1000 ELSE 1

\* xlsx_parser_dfp.py 11-26
CODE_MAP ==
    [c \in {"1", "1.01", "1.01.01", "1.01.04", "2", "2.01", "2.03", "2.01.04", "2.02.01",
            "3.01", "3.03", "3.05", "3.11", "6.01.01.04"} |->
        CASE c = "1" -> "ativo_total"
          [] c = "1.01" -> "ativo_circulante"
          [] c = "1.01.01" -> "caixa"
          [] c = "1.01.04" -> "estoques"
          [] c = "2" -> "passivo_total"
          [] c = "2.01" -> "passivo_circulante"
          [] c = "2.03" -> "patrimonio_liquido"
          [] c = "2.01.04" -> "emprestimos_cp"
          [] c = "2.02.01" -> "emprestimos_lp"
          [] c = "3.01" -> "receita_liquida"
          [] c = "3.03" -> "lucro_bruto"
          [] c = "3.05" -> "ebit"
          [] c = "3.11" -> "lucro_liquido"
          [] c = "6.01.01.04" -> "depreciacao"]

\* xlsx_parser_dfp.py 28-40, in dict order (the keywords written with
\* accents are left out: the descriptions of the model have none)
DESC_MAP ==
    << <<"ativo_total", {"ativo total"}>>,
       <<"ativo_circulante", {"ativo circulante"}>>,
       <<"caixa", {"caixa e equivalentes de caixa", "caixa e equivalentes"}>>,
       <<"estoques", {"estoques"}>>,
       <<"passivo_total", {"passivo total"}>>,
       <<"passivo_circulante", {"passivo circulante"}>>,
       <<"patrimonio_liquido", {"patrimonio liquido"}>>,
       <<"receita_liquida", {"receita de venda de bens"}>>,
       <<"lucro_bruto", {"resultado bruto", "lucro bruto"}>>,
       <<"ebit", {"resultado antes do resultado financeiro e dos tributos"}>>,
       <<"lucro_liquido", {"lucro/prejuizo do periodo"}>> >>

\* xlsx_parser_dfp.py 211-221: "" for None
_match_field(code, description) ==
    IF code # "" /\ Strip(code) \in DOMAIN CODE_MAP THEN CODE_MAP[Strip(code)]
    ELSE IF description # ""
            /\ \E i \in 1..Len(DESC_MAP) :
                  \E keyword \in DESC_MAP[i][2] : Contains(Lower(Strip(description)), keyword)
    THEN DESC_MAP[Min({ i \in 1..Len(DESC_MAP) :
                          \E keyword \in DESC_MAP[i][2] :
                              Contains(Lower(Strip(description)), keyword) })][1]
    ELSE ""

\* xlsx_parser_dfp.py 301-309: the field of a row, "" when the row is skipped
row_field(row, code_col, desc_col) ==
    IF _match_field(RowText(row, code_col), RowText(row, desc_col)) # ""
    THEN _match_field(RowText(row, code_col), RowText(row, desc_col))
    ELSE IF Contains(Lower(RowText(row, desc_col)), "deprecia") THEN "depreciacao"
    ELSE IF Contains(Lower(RowText(row, desc_col)), "amortiza") THEN "amortizacao"
    ELSE ""

IsCapitalSheet(sheet) == Contains(sheet.name, "composicaocapital")

\* xlsx_parser_dfp.py 146-162: the year of the first capital-composition
\* sheet in which the date scan finds one
infer_workbook_base_year(sh) ==
    IF \E i \in 1..Len(sh) : IsCapitalSheet(sh[i]) /\ sh[i].date_year # 0
    THEN sh[Min({ i \in 1..Len(sh) : IsCapitalSheet(sh[i]) /\ sh[i].date_year # 0 })].date_year
    ELSE 0

\* xlsx_parser_dfp.py 236-249: the names of the sheets read for values
sheet_scope(name) ==
    IF Contains(name, "cons") THEN "cons" ELSE IF Contains(name, "ind") THEN "ind" ELSE ""

sheet_names(sh, prefer_consolidated) ==
    LET preferred_scope == IF prefer_consolidated THEN "cons" ELSE "ind"
        preferred == SelectSeq(sh, LAMBDA s : sheet_scope(s.name) = preferred_scope)
        fallback == SelectSeq(sh, LAMBDA s : sheet_scope(s.name) # preferred_scope)
    IN  IF preferred # <<>> THEN preferred ELSE fallback

\* raw_by_year.setdefault(year, {})
setdefault(target, year) ==
    [y \in DOMAIN target \cup {year} |-> IF y \in DOMAIN target THEN target[y] ELSE EmptyMap]

\* a share count that counts the treasury shares as outstanding
shares_outstanding_ignoring_treasury(shares_issued, shares_treasury) == shares_issued

\* xlsx_parser_dfp.py 198-200
shares_outstanding_of(shares_issued, shares_treasury) ==
    IF shares_treasury # None /\ RLe(shares_treasury, shares_issued)
    THEN RSub(shares_issued, shares_treasury)
    ELSE None

\* xlsx_parser_dfp.py 177-208 (a sheet with no row has no first row)
_populate_share_counts(target, sheet, base_year) ==
    LET issued_col == _get_column_by_tokens(sheet.columns, {"total", "capital", "integralizado"})
        treasury_col == _get_column_by_tokens(sheet.columns, {"total", "tesouraria"})
        precision_col == FirstColumn(<<_get_column_by_tokens(sheet.columns, {"precisao"}),
                                       _get_column_by_tokens(sheet.columns, {"unidade"})>>)
    IN  IF issued_col = "" \/ sheet.rows = <<>> THEN target
        ELSE LET row == sheet.rows[1]
                 multiplier == _parse_precision(RowText(row, precision_col))
                 parsed_issued == RowValue(row, issued_col)
                 parsed_treasury == IF treasury_col # "" THEN RowValue(row, treasury_col) ELSE None
             IN  IF parsed_issued = None THEN target
                 ELSE LET shares_issued == RMul(parsed_issued, Num(multiplier))
                          shares_treasury == IF parsed_treasury # None
                                             THEN RMul(parsed_treasury, Num(multiplier)) ELSE None
                          shares_outstanding == shares_outstanding_of(shares_issued, shares_treasury)
                          t0 == setdefault(target, base_year)
                          t1 == IF shares_outstanding # None
                                THEN store_value(t0, base_year, "qtd_acoes_total", shares_outstanding)
                                ELSE t0
                          t2 == store_value(t1, base_year, "qtd_acoes_emitidas", shares_issued)
                      IN  IF shares_treasury # None
                          THEN store_value(t2, base_year, "qtd_acoes_tesouraria", shares_treasury)
                          ELSE t2

\* xlsx_parser_dfp.py 264-267: over the capital-composition sheets in order
RECURSIVE populate_sheets(_, _, _, _)
populate_sheets(target, sh, base_year, i) ==
    IF i > Len(sh) THEN target
    ELSE populate_sheets(IF IsCapitalSheet(sh[i])
                         THEN _populate_share_counts(target, sh[i], base_year) ELSE target,
                         sh, base_year, i + 1)

\* xlsx_parser_dfp.py 283-285
last_col_of(columns) == _get_column_by_tokens(columns, {"ultimo"})
prev_col_of(columns) == _get_column_by_tokens(columns, {"penultimo"})
prev2_col_of(columns) == _get_column_by_tokens(columns, {"antepenultimo"})

code_col_of(columns) == _get_column_by_tokens(columns, {"codigo"})
desc_col_of(columns) == _get_column_by_tokens(columns, {"descricao"})
precision_col_of(columns) ==
    FirstColumn(<<_get_column_by_tokens(columns, {"precisao"}),
                  _get_column_by_tokens(columns, {"unidade"}),
                  _get_column_by_tokens(columns, {"escala"})>>)

\* xlsx_parser_dfp.py 296: the sheet is read only with its three columns found
SheetUsed(sheet) ==
    last_col_of(sheet.columns) # "" /\ prev_col_of(sheet.columns) # ""
    /\ prev2_col_of(sheet.columns) # ""

\* xlsx_parser_dfp.py 300-328: one row of a used sheet
store_row(target, sheet, row, base_year) ==
    LET field == row_field(row, code_col_of(sheet.columns), desc_col_of(sheet.columns))
        multiplier == _parse_precision(RowText(row, precision_col_of(sheet.columns)))
    IN  IF field = "" \/ base_year = 0 THEN target
        ELSE xlsx_store(
                 xlsx_store(
                     xlsx_store(target, base_year, base_year, field,
                                RowValue(row, last_col_of(sheet.columns)), multiplier),
                     base_year, base_year - 1, field,
                     RowValue(row, prev_col_of(sheet.columns)), multiplier),
                 base_year, base_year - 2, field,
                 RowValue(row, prev2_col_of(sheet.columns)), multiplier)

RECURSIVE store_rows(_, _, _, _)
store_rows(target, sheet, base_year, i) ==
    IF i > Len(sheet.rows) THEN target
    ELSE store_rows(store_row(target, sheet, sheet.rows[i], base_year), sheet, base_year, i + 1)

\* xlsx_parser_dfp.py 269-331: over the sheets read for values, in order
RECURSIVE store_sheets(_, _, _, _)
store_sheets(target, used, base_year, i) ==
    IF i > Len(used) THEN target
    ELSE store_sheets(IF SheetUsed(used[i]) THEN store_rows(target, used[i], base_year, 1)
                      ELSE target,
                      used, base_year, i + 1)

\* xlsx_parser_dfp.py 310-312
currency_unit_of(used) ==
    IF \E i \in 1..Len(used) :
          /\ SheetUsed(used[i])
          /\ \E j \in 1..Len(used[i].rows) :
                /\ row_field(used[i].rows[j], code_col_of(used[i].columns),
                             desc_col_of(used[i].columns)) # ""
                /\ _parse_precision(RowText(used[i].rows[j],
                                            precision_col_of(used[i].columns))) = 1000
    THEN "BRL_THOUSANDS" ELSE "BRL"

\* a base year that is guessed when the workbook gives none
workbook_base_year_guessed(sh, ref_year) ==
    IF infer_workbook_base_year(sh) # 0 THEN infer_workbook_base_year(sh) ELSE 2022

\* xlsx_parser_dfp.py 251: reference_year takes no part
workbook_base_year_of(sh, ref_year) == infer_workbook_base_year(sh)

\* xlsx_parser_dfp.py 224-381: the returned pair
parse_xlsx(sh, ref_year, prefer_consolidated) ==
    LET workbook_base_year == workbook_base_year_of(sh, ref_year)
    IN  IF workbook_base_year = 0
        THEN [raw_by_year |-> EmptyMap, currency_unit |-> "BRL"]
        ELSE LET used == sheet_names(sh, prefer_consolidated)
                 stored == store_sheets(populate_sheets(EmptyMap, sh, workbook_base_year, 1),
                                        used, workbook_base_year, 1)
             IN  [raw_by_year |->
                      [y \in DOMAIN stored \cap allowed_years(workbook_base_year) |-> stored[y]],
                  currency_unit |-> currency_unit_of(used)]

\* ---- inputs of parse_xlsx
MaxRows == 1

IssuedColumn == "quantidade_total_capital_integralizado"
TreasuryColumn == "quantidade_total_acoes_tesouraria"

LastColumn == "valor_ultimo_exercicio"
PrevColumn == "valor_penultimo_exercicio"
Prev2Column == "valor_antepenultimo_exercicio"

\* the capital-composition sheet: with or without a date, with or without a
\* treasury column, its first row with the counts as _parse_number gives them
CapitalSheets ==
    { [name |-> "composicaocapital", date_year |-> dy,
       columns |-> <<IssuedColumn, TreasuryColumn>>,
       rows |-> <<[text |-> EmptyMap,
                   values |-> (IssuedColumn :> issued) @@ (TreasuryColumn :> treasury)]>>] :
        dy \in {0, 2022}, issued \in {Num(100)}, treasury \in {None, Num(10), Num(200)} }
    \cup
    { [name |-> "composicaocapital", date_year |-> dy,
       columns |-> <<IssuedColumn>>,
       rows |-> <<[text |-> EmptyMap, values |-> (IssuedColumn :> issued)]>>] :
        dy \in {0, 2022}, issued \in {None, Num(100)} }

\* the orders in which a sheet holds its three exercise columns, and a sheet
\* that lacks one of them
ExerciseColumnOrders ==
    { <<LastColumn, PrevColumn, Prev2Column>>, <<LastColumn, Prev2Column, PrevColumn>>,
      <<PrevColumn, LastColumn, Prev2Column>>, <<PrevColumn, Prev2Column, LastColumn>>,
      <<Prev2Column, LastColumn, PrevColumn>>, <<Prev2Column, PrevColumn, LastColumn>>,
      <<LastColumn, PrevColumn>> }

StatementRow(code, description, precision, last) ==
    [text |-> ("codigo_conta" :> code) @@ ("descricao_conta" :> description)
              @@ ("precisao" :> precision),
     values |-> (LastColumn :> last) @@ (PrevColumn :> Num(90)) @@ (Prev2Column :> Num(80))]

StatementRows ==
    { StatementRow("3.01", "", "", last) : last \in {None, Num(100)} }
    \cup { StatementRow("9.99", "Depreciacao e Amortizacao", "", Num(100)),
           StatementRow("9.99", "Outros", "", Num(100)),
           StatementRow("3.01", "Receita de Venda de Bens", "Mil", Num(100)) }

RowLists == UNION { [1..n -> StatementRows] : n \in 0..MaxRows }

StatementSheets ==
    { [name |-> nm, date_year |-> dy,
       columns |-> <<"codigo_conta", "descricao_conta", "precisao">> \o order,
       rows |-> rows] :
        nm \in {"dfconsresultado", "dfindresultado"}, dy \in {0, 2021},
        order \in ExerciseColumnOrders, rows \in RowLists }

Workbooks ==
    { <<s>> : s \in StatementSheets }
    \cup { <<c, s>> : c \in CapitalSheets, s \in StatementSheets }

ReferenceYears == {0, 2022}

XlsxIdle ==
    /\ sheets = <<>>
    /\ reference_year = 0
    /\ xlsx_raw_by_year = EmptyMap
    /\ xlsx_currency_unit = "BRL"
    /\ xlsxPc = "idle"

XlsxInit ==
    /\ sheets \in Workbooks
    /\ reference_year \in ReferenceYears
    /\ xlsx_raw_by_year = EmptyMap
    /\ xlsx_currency_unit = "BRL"
    /\ xlsxPc = "input"

\* main.py 278-282: parse_xlsx(excel_paths[0], reference_year, prefer_consolidated=True)
ParseXlsx ==
    /\ xlsxPc = "input"
    /\ \E out \in {parse_xlsx(sheets, reference_year, TRUE)} :
          /\ xlsx_raw_by_year' = out.raw_by_year
          /\ xlsx_currency_unit' = out.currency_unit
    /\ xlsxPc' = "returned"
    /\ UNCHANGED <<sheets, reference_year>>
    /\ UNCHANGED <<reconVars, mergeVars, indVars, normVars, cagrVars, pdfVars, batchVars, numVars, dlVars, sendVars>>

XlsxNext == ParseXlsx

-----------------------------------------------------------------------------
(* The document text extractor: pdf_parser_dfp.py parse_dfp_pdf            *)
(*                                                                         *)
(* A page is the list of its text lines, the title first.  A line is       *)
(* [code, description, years, numbers]: the account code and the           *)
(* description _extract_code_and_description splits it into ("" for no     *)
(* code), the years of its 31/12/20xx dates, and the amounts written after *)
(* the description, as _parse_value reads them.  Text is written without   *)
(* accents; a scope or a section that is None in the code is "".           *)

CONSOLIDATED_KEYWORDS == {"consolidado", "consolidadas", "dfs consolidadas"}

INDIVIDUAL_KEYWORDS == {"individual", "individuais", "dfs individuais"}

\* in the order of the dict
SECTION_KEYWORDS ==
    << <<"balanco", {"balanco patrimonial"}>>,
       <<"dre", {"demonstracao do resultado"}>>,
       <<"dfc", {"demonstracao dos fluxos de caixa"}>>,
       <<"capital", {"composicao do capital", "dados da empresa"}>> >>

IGNORED_KEYWORDS == {"relatorio da administracao", "notas explicativas"}

line_text(ln) == IF ln.code = "" THEN ln.description ELSE ln.code \o " " \o ln.description

\* `any(keyword in lowered ...)` over a text given by its lines: no keyword holds a line break
any_keyword(text, keywords) ==
    \E i \in 1..Len(text) :
        \E lowered \in {Lower(line_text(text[i]))} :
            \E keyword \in keywords : Contains(lowered, keyword)

\* MILLI_RE.search(full_text), the \s* of the pattern read as no or one blank
MILLI_RE(text) == any_keyword(text, {"reais mil", "reaismil", "em milhares", "emmilhares"})

_detect_scope(text) ==
    IF any_keyword(text, CONSOLIDATED_KEYWORDS) THEN "consolidado"
    ELSE IF any_keyword(text, INDIVIDUAL_KEYWORDS) THEN "individual"
    ELSE ""

_detect_section(text) ==
    LET hits == { i \in 1..Len(SECTION_KEYWORDS) : any_keyword(text, SECTION_KEYWORDS[i][2]) }
    IN  IF any_keyword(text, IGNORED_KEYWORDS) \/ hits = {} THEN ""
        ELSE SECTION_KEYWORDS[Min(hits)][1]

FIELD_CODE_MAP ==
    [c \in {"1", "1.01", "1.01.01", "1.01.04", "2", "2.01", "2.03", "2.01.04", "2.02.01",
            "3.01", "3.03", "3.05", "3.11"} |->
        CASE c = "1" -> "ativo_total"
          [] c = "1.01" -> "ativo_circulante"
          [] c = "1.01.01" -> "caixa"
          [] c = "1.01.04" -> "estoques"
          [] c = "2" -> "passivo_total"
          [] c = "2.01" -> "passivo_circulante"
          [] c = "2.03" -> "patrimonio_liquido"
          [] c = "2.01.04" -> "emprestimos_cp"
          [] c = "2.02.01" -> "emprestimos_lp"
          [] c = "3.01" -> "receita_liquida"
          [] c = "3.03" -> "lucro_bruto"
          [] c = "3.05" -> "ebit"
          [] c = "3.11" -> "lucro_liquido"]

_match_field_by_code(code) ==
    IF code \in DOMAIN FIELD_CODE_MAP THEN FIELD_CODE_MAP[code]
    ELSE IF \E prefix \in DOMAIN FIELD_CODE_MAP :
               StartsWith(code, prefix \o ".") /\ FIELD_CODE_MAP[prefix] = "lucro_liquido"
    THEN "lucro_liquido"
    ELSE ""

FIELD_DESC_MAP ==
    << <<"ativo_total", {"ativo total"}>>,
       <<"ativo_circulante", {"ativo circulante"}>>,
       <<"caixa", {"caixa e equivalentes de caixa", "caixa e equivalentes"}>>,
       <<"estoques", {"estoques"}>>,
       <<"passivo_total", {"passivo total"}>>,
       <<"passivo_circulante", {"passivo circulante"}>>,
       <<"patrimonio_liquido", {"patrimonio liquido"}>>,
       <<"receita_liquida", {"receita de venda de bens", "receita de venda de bens e/ou servicos"}>>,
       <<"lucro_bruto", {"resultado bruto", "lucro bruto"}>>,
       <<"ebit", {"resultado antes do resultado financeiro e dos tributos"}>>,
       <<"lucro_liquido", {"lucro/prejuizo do periodo"}>> >>

desc_hits(lowered) ==
    { i \in 1..Len(FIELD_DESC_MAP) : \E keyword \in FIELD_DESC_MAP[i][2] : Contains(lowered, keyword) }

_match_field_by_desc(description) ==
    LET hits == desc_hits(Lower(description))
    IN  IF hits = {} THEN "" ELSE FIELD_DESC_MAP[Min(hits)][1]

\* pdf_parser_dfp.py 195-211: the field of a line, "" when the line is skipped
line_field(section, ln) ==
    LET by_code == IF ln.code # "" THEN _match_field_by_code(ln.code) ELSE ""
        by_desc == IF by_code # "" THEN by_code ELSE _match_field_by_desc(ln.description)
        lowered == Lower(ln.description)
    IN  IF by_desc # "" \/ section # "dfc" THEN by_desc
        ELSE IF Contains(lowered, "deprecia") THEN "depreciacao"
        ELSE IF Contains(lowered, "amortiza") THEN "amortizacao"
        ELSE ""

Digit(c) == CHOOSE d \in 0..9 : SubSeq("0123456789", d + 1, d + 1) = c

\* VALUE_RE reads an integer of up to three digits out of every group of a code
RECURSIVE code_tokens(_)
code_tokens(code) ==
    IF Len(code) < 1 THEN <<>>
    ELSE IF Len(code) = 1 \/ SubSeq(code, 2, 2) = "."
    THEN <<Digit(SubSeq(code, 1, 1))>> \o code_tokens(SubSeq(code, 3, Len(code)))
    ELSE <<10 * Digit(SubSeq(code, 1, 1)) + Digit(SubSeq(code, 2, 2))>>
         \o code_tokens(SubSeq(code, 4, Len(code)))

\* VALUE_RE over "31/12/20xx": 31, 12, the first three digits and the last one
RECURSIVE year_tokens(_)
year_tokens(ys) ==
    IF ys = <<>> THEN <<>>
    ELSE <<31, 12, Head(ys) \div 10, Head(ys) % 10>> \o year_tokens(Tail(ys))

\* every match of VALUE_RE in the line, left to right
_extract_values_from_line(ln) == code_tokens(ln.code) \o year_tokens(ln.years) \o ln.numbers

_extract_years_from_line(ln) == ln.years

\* pdf_parser_dfp.py 219-220: the values kept for the years of the page
aligned_values_leading(values, ys) ==
    IF Len(values) >= Len(ys) THEN SubSeq(values, 1, Len(ys)) ELSE values

aligned_values(values, ys) ==
    IF Len(values) >= Len(ys)
    THEN SubSeq(values, Len(values) - Len(ys) + 1, Len(values))
    ELSE values

\* pdf_parser_dfp.py 225-233: `for year, value in zip(years, values)` from position i on
RECURSIVE store_line(_, _, _, _, _, _, _)
store_line(target, ys, values, i, fld, description, mult) ==
    IF i > Len(ys) THEN target
    ELSE LET stored == store_value(target, ys[i], fld, Num(values[i] * mult))
             zeroed == IF fld = "depreciacao" /\ Contains(Lower(description), "amortiza")
                       THEN store_value(stored, ys[i], "amortizacao", Num(0))
                       ELSE stored
         IN  store_line(zeroed, ys, values, i + 1, fld, description, mult)

\* pdf_parser_dfp.py 193-233: one line of a page whose years are ys
parse_line(target, section, ys, ln, mult) ==
    LET fld == line_field(section, ln)
        values == _extract_values_from_line(ln)
    IN  IF ys = <<>> \/ fld = "" \/ values = <<>> THEN target
        ELSE IF Len(aligned_values(values, ys)) # Len(ys) THEN target
        ELSE store_line(target, ys, aligned_values(values, ys), 1, fld, ln.description, mult)

\* pdf_parser_dfp.py 235-262: the second pass over the lines of a capital page
RECURSIVE capital_lines(_, _, _, _, _, _)
capital_lines(target, lines, i, in_integralizado, in_tesouraria, ys) ==
    IF i > Len(lines) THEN target
    ELSE LET lowered == Lower(line_text(lines[i]))
             values == _extract_values_from_line(lines[i])
             multiplier_shares == IF Contains(lowered, "mil") THEN 1000 ELSE 1
             shares == Num(values[Len(values)] * multiplier_shares)
         IN  IF Contains(lowered, "capital integralizado")
             THEN capital_lines(target, lines, i + 1, TRUE, FALSE, ys)
             ELSE IF Contains(lowered, "tesouraria")
             THEN capital_lines(target, lines, i + 1, FALSE, TRUE, ys)
             ELSE IF Contains(lowered, "total") /\ (in_integralizado \/ in_tesouraria)
                     /\ values # <<>> /\ ys # <<>>
             THEN capital_lines(
                      IF in_integralizado
                      THEN store_value(target, ys[1], "qtd_acoes_emitidas", shares)
                      ELSE store_value(target, ys[1], "qtd_acoes_tesouraria", shares),
                      lines, i + 1, in_integralizado, in_tesouraria, ys)
             ELSE capital_lines(target, lines, i + 1, in_integralizado, in_tesouraria, ys)

\* "\n".join(pages_text), as the list of its lines
RECURSIVE full_text(_)
full_text(pages) == IF pages = <<>> THEN <<>> ELSE Head(pages) \o full_text(Tail(pages))

\* pdf_parser_dfp.py 176-182
select_scopes_individual_first(scopes) ==
    IF \E i \in 1..Len(scopes) : scopes[i] = "individual" THEN {"individual"}
    ELSE IF \E i \in 1..Len(scopes) : scopes[i] = "consolidado" THEN {"consolidado"}
    ELSE {""}

select_scopes(scopes) ==
    IF \E i \in 1..Len(scopes) : scopes[i] = "consolidado" THEN {"consolidado"}
    ELSE IF \E i \in 1..Len(scopes) : scopes[i] = "individual" THEN {"individual"}
    ELSE {""}

\* ---- the documents the extractor is run on

MaxBodyLines == 2

TextLine(code, description, ys, numbers) ==
    [code |-> code, description |-> description, years |-> ys, numbers |-> numbers]

TitleLines ==
    { TextLine("", "Demonstracao dos Fluxos de Caixa - DFs Consolidadas (Reais Mil)", <<>>, <<>>),
      TextLine("", "Demonstracao dos Fluxos de Caixa - DFs Individuais", <<>>, <<>>),
      TextLine("", "Balanco Patrimonial Ativo", <<>>, <<>>) }

HeaderLines ==
    { TextLine("", "Conta Descricao 31/12/2022 31/12/2021", <<2022, 2021>>, <<>>),
      TextLine("", "Conta Descricao 31/12/2022", <<2022>>, <<>>) }

CombinedLine == TextLine("", "Depreciacao e Amortizacao", <<>>, <<50, 40>>)

AmortizationLine == TextLine("", "Amortizacao", <<>>, <<7, 6>>)

BodyLines ==
    { CombinedLine, AmortizationLine,
      TextLine("1", "Ativo Total", <<>>, <<900, 800>>),
      TextLine("", "Estoques", <<>>, <<300>>),
      TextLine("", "Passivo Total", <<>>, <<>>) }

Bodies == UNION { [1..k -> BodyLines] : k \in 0..MaxBodyLines }

StatementPages ==
    { <<title, header>> \o body : title \in TitleLines, header \in HeaderLines, body \in Bodies }

ReportPage == << TextLine("", "Relatorio da Administracao - Consolidado", <<>>, <<>>) >>

UndatedPage ==
    << TextLine("", "Balanco Patrimonial Ativo", <<>>, <<>>),
       TextLine("1", "Ativo Total", <<>>, <<900, 800>>) >>

CapitalPages ==
    { << TextLine("", "Composicao do Capital", <<>>, <<>>), header,
         TextLine("", "Do Capital Integralizado (Mil)", <<>>, <<>>),
         TextLine("", "Total", <<>>, <<500>>),
         TextLine("", "Em Tesouraria", <<>>, <<>>),
         TextLine("", "Total", <<>>, <<20>>) >> : header \in HeaderLines }

PdfPages == StatementPages \cup CapitalPages \cup {ReportPage, UndatedPage}

\* the first page of a two-page document: one of each scope
LeadingPages ==
    { ReportPage,
      << TextLine("", "Demonstracao dos Fluxos de Caixa - DFs Individuais", <<>>, <<>>),
         TextLine("", "Conta Descricao 31/12/2022 31/12/2021", <<2022, 2021>>, <<>>),
         TextLine("", "Depreciacao", <<>>, <<30, 20>>) >>,
      << TextLine("", "Balanco Patrimonial Ativo", <<>>, <<>>),
         TextLine("", "Conta Descricao 31/12/2022 31/12/2021", <<2022, 2021>>, <<>>),
         TextLine("1", "Ativo Total", <<>>, <<700, 600>>) >>,
      << TextLine("", "Demonstracao dos Fluxos de Caixa - DFs Consolidadas", <<>>, <<>>),
         TextLine("", "Conta Descricao 31/12/2022 31/12/2021", <<2022, 2021>>, <<>>),
         CombinedLine >> }

PdfDocuments ==
    { <<page>> : page \in PdfPages } \cup { <<first, page>> : first \in LeadingPages, page \in PdfPages }

PdfIdle ==
    /\ pdf_pages = <<>>
    /\ pdf_multiplier = 1
    /\ pdf_currency_unit = "BRL"
    /\ page_scopes = <<>>
    /\ selected_scopes = {}
    /\ pdf_by_year = EmptyMap
    /\ pageNo = 0
    /\ lineNo = 0
    /\ page_section = ""
    /\ page_years = <<>>
    /\ pdfPc = "idle"

\* pdf_parser_dfp.py 160-163
PdfInit ==
    /\ pdf_pages \in PdfDocuments
    /\ pdf_multiplier = 1
    /\ pdf_currency_unit = "BRL"
    /\ page_scopes = <<>>
    /\ selected_scopes = {}
    /\ pdf_by_year = EmptyMap
    /\ pageNo = 0
    /\ lineNo = 0
    /\ page_section = ""
    /\ page_years = <<>>
    /\ pdfPc = "open"

\* pdf_parser_dfp.py 165-182: the unit and the scope of the document
OpenPdf ==
    /\ pdfPc = "open"
    /\ \E thousands \in {MILLI_RE(full_text(pdf_pages))} :
          /\ pdf_multiplier' = IF thousands THEN 1000 ELSE 1
          /\ pdf_currency_unit' = IF thousands THEN "BRL_THOUSANDS" ELSE "BRL"
    /\ page_scopes' = [i \in 1..Len(pdf_pages) |-> _detect_scope(pdf_pages[i])]
    /\ selected_scopes' = select_scopes(page_scopes')
    /\ pageNo' = 1
    /\ pdfPc' = "page"
    /\ UNCHANGED <<pdf_pages, pdf_by_year, lineNo, page_section, page_years>>
    /\ UNCHANGED <<reconVars, mergeVars, indVars, normVars, cagrVars, xlsxVars, batchVars, numVars, dlVars, sendVars>>

\* pdf_parser_dfp.py 184-191: the head of the page loop
NextPage ==
    /\ pdfPc = "page"
    /\ IF pageNo > Len(pdf_pages)
       THEN /\ pdfPc' = "returned"
            /\ UNCHANGED <<pageNo, lineNo, page_section, page_years>>
       ELSE IF page_scopes[pageNo] \notin selected_scopes
       THEN /\ pageNo' = pageNo + 1
            /\ UNCHANGED <<pdfPc, lineNo, page_section, page_years>>
       ELSE \E section \in {_detect_section(pdf_pages[pageNo])} :
               /\ page_section' = section
               /\ IF section = ""
                  THEN /\ pageNo' = pageNo + 1
                       /\ UNCHANGED <<pdfPc, lineNo, page_years>>
                  ELSE /\ page_years' = <<>>
                       /\ lineNo' = 1
                       /\ pdfPc' = "line"
                       /\ UNCHANGED pageNo
    /\ UNCHANGED <<pdf_pages, pdf_multiplier, pdf_currency_unit, page_scopes, selected_scopes,
                   pdf_by_year>>
    /\ UNCHANGED <<reconVars, mergeVars, indVars, normVars, cagrVars, xlsxVars, batchVars, numVars, dlVars, sendVars>>

\* pdf_parser_dfp.py 192-233: one iteration of `for line in page_text.splitlines()`
ParseLine ==
    /\ pdfPc = "line"
    /\ lineNo <= Len(pdf_pages[pageNo])
    /\ page_years' = IF page_years = <<>>
                     THEN _extract_years_from_line(pdf_pages[pageNo][lineNo])
                     ELSE page_years
    /\ pdf_by_year' = parse_line(pdf_by_year, page_section, page_years',
                                 pdf_pages[pageNo][lineNo], pdf_multiplier)
    /\ lineNo' = lineNo + 1
    /\ UNCHANGED <<pdf_pages, pdf_multiplier, pdf_currency_unit, page_scopes, selected_scopes,
                   pageNo, page_section, pdfPc>>
    /\ UNCHANGED <<reconVars, mergeVars, indVars, normVars, cagrVars, xlsxVars, batchVars, numVars, dlVars, sendVars>>

\* pdf_parser_dfp.py 235-268: the end of a page, with the share counts of a capital page
EndPage ==
    /\ pdfPc = "line"
    /\ lineNo > Len(pdf_pages[pageNo])
    /\ pdf_by_year' = IF page_section = "capital"
                      THEN capital_lines(pdf_by_year, pdf_pages[pageNo], 1, FALSE, FALSE,
                                         page_years)
                      ELSE pdf_by_year
    /\ pageNo' = pageNo + 1
    /\ pdfPc' = "page"
    /\ UNCHANGED <<pdf_pages, pdf_multiplier, pdf_currency_unit, page_scopes, selected_scopes,
                   lineNo, page_section, page_years>>
    /\ UNCHANGED <<reconVars, mergeVars, indVars, normVars, cagrVars, xlsxVars, batchVars, numVars, dlVars, sendVars>>

PdfNext == OpenPdf \/ NextPage \/ ParseLine \/ EndPage

-----------------------------------------------------------------------------
(* The batch: main and process_row of main.py                              *)
(*                                                                         *)
(* A company is [cod_cvm, dirs, site, filings, write]: the company code of *)
(* its row ("" when missing) and what its collaborators do during the run: *)
(* dirs and write tell whether the output directories can be made and the  *)
(* result file written, site whether the navigation and the retrieval work *)
(* ("ok") or raise; a filing is [zip, xlsx, pdfs], zip "ok" or "raises",   *)
(* xlsx "none" (no workbook in the archive), "years", "empty" (parse_xlsx  *)
(* returns no year) or "raises", and pdfs the outcome of parse_dfp_pdf on  *)
(* each of its PDFs: "years", "empty" or "raises".  Extracted data is kept *)
(* as the set of fiscal years it covers: FilingYear from a workbook,        *)
(* PdfFilingYears from a PDF.                                              *)

FilingYear == {2022}

PdfFilingYears == {2021, 2022}

\* main.py 175-193, with the fields the status depends on
NewResult == [errors |-> <<>>, status |-> "pending"]

\* main.py 492-495: except Exception as exc
caught(res, exc) == [errors |-> Append(res.errors, exc), status |-> "failed"]

\* main.py 229-232: the row has no company code
missing_code_unrecorded(res) == [errors |-> res.errors, status |-> "failed"]

missing_code(res) ==
    [errors |-> Append(res.errors, "Codigo CVM ausente no CSV"), status |-> "failed"]

\* the years parse_xlsx and parse_dfp_pdf return, by outcome
xlsx_years(outcome) == IF outcome = "years" THEN FilingYear ELSE {}

pdf_years(outcome) == IF outcome = "years" THEN PdfFilingYears ELSE {}

\* main.py 308-309: doc_used_xlsx, from the years parse_xlsx returned
doc_used_xlsx_never(xlsx_by_year) == FALSE

doc_used_xlsx(xlsx_by_year) == xlsx_by_year # {}

\* main.py 487-490
final_status(res, parsing_errors) ==
    IF res.errors # <<>> \/ parsing_errors THEN "partial" ELSE "success"

\* main.py 362: the years of consolidate_documents(documents_data)
consolidated_years(docs) == UNION { docs[i] : i \in 1..Len(docs) }

\* ---- the batches main is run on

MaxFilings == 2

Filing(zip, xlsx, pdfs) == [zip |-> zip, xlsx |-> xlsx, pdfs |-> pdfs]

Filings ==
    { Filing("raises", "none", <<>>),
      Filing("ok", "years", <<"years">>),
      Filing("ok", "raises", <<"years">>),
      Filing("ok", "empty", <<"years">>),
      Filing("ok", "none", <<"raises">>),
      Filing("ok", "none", <<"raises", "years">>),
      Filing("ok", "none", <<"empty">>) }

FilingLists == UNION { [1..k -> Filings] : k \in 0..MaxFilings }

Company(cod_cvm, dirs, site, filings, write) ==
    [cod_cvm |-> cod_cvm, dirs |-> dirs, site |-> site, filings |-> filings, write |-> write]

Companies ==
    { Company("", TRUE, "ok", <<>>, TRUE),
      Company("1234", FALSE, "ok", <<>>, TRUE),
      Company("1234", TRUE, "raises", <<>>, TRUE) }
    \cup { Company("1234", TRUE, "ok", filings, write) :
             filings \in FilingLists, write \in BOOLEAN }

\* the first company of a batch of two
LeadingCompanies ==
    { Company("", TRUE, "ok", <<>>, TRUE),
      Company("1234", FALSE, "ok", <<>>, TRUE),
      Company("1234", TRUE, "raises", <<>>, TRUE),
      Company("1234", TRUE, "ok", <<>>, FALSE),
      Company("1234", TRUE, "ok", <<Filing("ok", "years", <<>>)>>, TRUE),
      Company("1234", TRUE, "ok", <<Filing("ok", "none", <<"empty">>)>>, TRUE) }

Batches ==
    { <<company>> : company \in Companies }
    \cup { <<first, company>> : first \in LeadingCompanies, company \in Companies }

BatchIdle ==
    /\ companies = <<>>
    /\ configured = FALSE
    /\ rowNo = 0
    /\ result = NewResult
    /\ has_parsing_errors = FALSE
    /\ documents_data = <<>>
    /\ filingNo = 0
    /\ pdfNo = 0
    /\ doc_years = {}
    /\ calls = <<>>
    /\ written = <<>>
    /\ batchPc = "idle"

\* main.py 500-504: df = load_input(args.input); configured is MONIITOR_API_KEY being set
BatchInit ==
    /\ companies \in Batches
    /\ configured \in BOOLEAN
    /\ rowNo = 1
    /\ result = NewResult
    /\ has_parsing_errors = FALSE
    /\ documents_data = <<>>
    /\ filingNo = 0
    /\ pdfNo = 0
    /\ doc_years = {}
    /\ calls = <<>>
    /\ written = <<>>
    /\ batchPc = "row"

\* main.py 506-514 and 160-226: the next row of the listing; ensure_dir is called before the
\* try of process_row, and main has no handler, so its OSError leaves main
StartRow ==
    /\ batchPc = "row"
    /\ IF rowNo > Len(companies)
       THEN /\ batchPc' = "done"
            /\ UNCHANGED <<result, has_parsing_errors, documents_data, calls>>
       ELSE /\ batchPc' = IF companies[rowNo].dirs THEN "code" ELSE "crashed"
            /\ result' = IF companies[rowNo].dirs THEN NewResult ELSE result
            /\ has_parsing_errors' = FALSE
            /\ documents_data' = <<>>
            /\ calls' = <<>>
    /\ UNCHANGED <<companies, configured, rowNo, filingNo, pdfNo, doc_years, written>>
    /\ UNCHANGED <<reconVars, mergeVars, indVars, normVars, cagrVars, xlsxVars, pdfVars, numVars, dlVars, sendVars>>

\* main.py 228-233
CheckCode ==
    /\ batchPc = "code"
    /\ IF companies[rowNo].cod_cvm = ""
       THEN /\ result' = missing_code(result)
            /\ batchPc' = "write"
       ELSE /\ batchPc' = "site"
            /\ UNCHANGED result
    /\ UNCHANGED <<companies, configured, rowNo, has_parsing_errors, documents_data, filingNo,
                   pdfNo, doc_years, calls, written>>
    /\ UNCHANGED <<reconVars, mergeVars, indVars, normVars, cagrVars, xlsxVars, pdfVars, numVars, dlVars, sendVars>>

\* main.py 235-249: the navigation and download_documents
OpenSite ==
    /\ batchPc = "site"
    /\ IF companies[rowNo].site = "raises"
       THEN /\ calls' = Append(calls, "open_enet")
            /\ result' = caught(result, "open_enet")
            /\ batchPc' = "write"
            /\ UNCHANGED filingNo
       ELSE /\ calls' = calls \o <<"open_enet", "download_documents">>
            /\ result' = IF companies[rowNo].filings = <<>>
                         THEN [result EXCEPT !.errors = Append(@, "Nenhum ZIP encontrado")]
                         ELSE result
            /\ filingNo' = 1
            /\ batchPc' = "filing"
    /\ UNCHANGED <<companies, configured, rowNo, has_parsing_errors, documents_data, pdfNo,
                   doc_years, written>>
    /\ UNCHANGED <<reconVars, mergeVars, indVars, normVars, cagrVars, xlsxVars, pdfVars, numVars, dlVars, sendVars>>

\* main.py 251-311: the head of `for download in downloads`, up to the PDFs of the filing
NextFiling ==
    /\ batchPc = "filing"
    /\ IF filingNo > Len(companies[rowNo].filings)
       THEN /\ batchPc' = "consolidate"
            /\ UNCHANGED <<result, documents_data, filingNo, pdfNo, doc_years, calls>>
       ELSE \E filing \in {companies[rowNo].filings[filingNo]} :
              IF filing.zip = "raises"
              THEN /\ calls' = Append(calls, "extract_zip")
                   /\ result' = caught(result, "extract_zip")
                   /\ batchPc' = "write"
                   /\ UNCHANGED <<documents_data, filingNo, pdfNo, doc_years>>
              ELSE IF filing.xlsx = "raises"
              THEN /\ calls' = calls \o <<"extract_zip", "parse_xlsx">>
                   /\ result' = caught(result, "parse_xlsx")
                   /\ batchPc' = "write"
                   /\ UNCHANGED <<documents_data, filingNo, pdfNo, doc_years>>
              ELSE /\ calls' = calls \o IF filing.xlsx = "none"
                                        THEN <<"extract_zip">>
                                        ELSE <<"extract_zip", "parse_xlsx">>
                   /\ IF doc_used_xlsx(xlsx_years(filing.xlsx))
                      THEN /\ documents_data' = Append(documents_data, xlsx_years(filing.xlsx))
                           /\ filingNo' = filingNo + 1
                           /\ UNCHANGED <<pdfNo, doc_years, batchPc>>
                      ELSE /\ doc_years' = xlsx_years(filing.xlsx)
                           /\ pdfNo' = 1
                           /\ batchPc' = "pdf"
                           /\ UNCHANGED <<documents_data, filingNo>>
                   /\ UNCHANGED result
    /\ UNCHANGED <<companies, configured, rowNo, has_parsing_errors, written>>
    /\ UNCHANGED <<reconVars, mergeVars, indVars, normVars, cagrVars, xlsxVars, pdfVars, numVars, dlVars, sendVars>>

\* main.py 312-358: one iteration of `for pdf_path in pdfs`, and the end of the filing
ParsePdf ==
    /\ batchPc = "pdf"
    /\ IF pdfNo > Len(companies[rowNo].filings[filingNo].pdfs)
       THEN /\ documents_data' = Append(documents_data, doc_years)
            /\ filingNo' = filingNo + 1
            /\ batchPc' = "filing"
            /\ UNCHANGED <<result, has_parsing_errors, pdfNo, doc_years, calls>>
       ELSE \E outcome \in {companies[rowNo].filings[filingNo].pdfs[pdfNo]} :
              /\ calls' = Append(calls, "parse_dfp_pdf")
              /\ pdfNo' = pdfNo + 1
              /\ has_parsing_errors' = (has_parsing_errors \/ outcome = "raises")
              /\ result' = IF outcome = "raises"
                           THEN [result EXCEPT !.errors = Append(@, "Erro parse PDF")]
                           ELSE result
              /\ doc_years' = doc_years \cup pdf_years(outcome)
              /\ UNCHANGED <<documents_data, filingNo, batchPc>>
    /\ UNCHANGED <<companies, configured, rowNo, written>>
    /\ UNCHANGED <<reconVars, mergeVars, indVars, normVars, cagrVars, xlsxVars, pdfVars, numVars, dlVars, sendVars>>

\* main.py 362-427: consolidate_documents and the indicators of every year; the call of
\* normalize_indicators unpacks its five results into three names
Consolidate ==
    /\ batchPc = "consolidate"
    /\ IF consolidated_years(documents_data) # {}
       THEN /\ result' = caught(result, "too many values to unpack (expected 3)")
            /\ batchPc' = "write"
       ELSE /\ batchPc' = "send"
            /\ UNCHANGED result
    /\ UNCHANGED <<companies, configured, rowNo, has_parsing_errors, documents_data, filingNo,
                   pdfNo, doc_years, calls, written>>
    /\ UNCHANGED <<reconVars, mergeVars, indVars, normVars, cagrVars, xlsxVars, pdfVars, numVars, dlVars, sendVars>>

\* main.py 429-490: the payloads (none without a year), the client and the status
SendPayloads ==
    /\ batchPc = "send"
    /\ \E sent \in {IF configured
                    THEN result
                    ELSE [result EXCEPT !.errors = Append(@, "MONIITOR_API_KEY nao configurada")]} :
          result' = [sent EXCEPT !.status = final_status(sent, has_parsing_errors)]
    /\ batchPc' = "write"
    /\ UNCHANGED <<companies, configured, rowNo, has_parsing_errors, documents_data, filingNo,
                   pdfNo, doc_years, calls, written>>
    /\ UNCHANGED <<reconVars, mergeVars, indVars, normVars, cagrVars, xlsxVars, pdfVars, numVars, dlVars, sendVars>>

\* main.py 497 and 138-142: write_result is called outside the try
WriteResult ==
    /\ batchPc = "write"
    /\ IF companies[rowNo].write
       THEN /\ written' = Append(written, [row |-> rowNo, errors |-> result.errors,
                                           status |-> result.status])
            /\ rowNo' = rowNo + 1
            /\ batchPc' = "row"
       ELSE /\ batchPc' = "crashed"
            /\ UNCHANGED <<written, rowNo>>
    /\ UNCHANGED <<companies, configured, result, has_parsing_errors, documents_data, filingNo,
                   pdfNo, doc_years, calls>>
    /\ UNCHANGED <<reconVars, mergeVars, indVars, normVars, cagrVars, xlsxVars, pdfVars, numVars, dlVars, sendVars>>

BatchNext ==
    StartRow \/ CheckCode \/ OpenSite \/ NextFiling \/ ParsePdf \/ Consolidate \/ SendPayloads
    \/ WriteResult

-----------------------------------------------------------------------------
(* Accounting numbers: xlsx_parser_dfp.py _parse_number and                *)
(* pdf_parser_dfp.py _parse_value, character by character                  *)

DigitChars == {"0", "1", "2", "3", "4", "5", "6", "7", "8", "9"}

CharAt(s, i) == SubSeq(s, i, i)

RECURSIVE strip_chars(_, _)
\* str.strip(chars)
strip_chars(s, chars) ==
    IF Len(s) = 0 THEN s
    ELSE IF CharAt(s, 1) \in chars THEN strip_chars(SubSeq(s, 2, Len(s)), chars)
    ELSE IF CharAt(s, Len(s)) \in chars THEN strip_chars(SubSeq(s, 1, Len(s) - 1), chars)
    ELSE s

RECURSIVE replace_char(_, _, _)
\* str.replace(old, new) for a one-character old
replace_char(s, old, new) ==
    IF Len(s) = 0 THEN s
    ELSE (IF CharAt(s, 1) = old THEN new ELSE CharAt(s, 1))
            \o replace_char(SubSeq(s, 2, Len(s)), old, new)

RECURSIVE keep_chars(_, _)
\* re.sub of every character outside the class by the empty string
keep_chars(s, class) ==
    IF Len(s) = 0 THEN s
    ELSE (IF CharAt(s, 1) \in class THEN CharAt(s, 1) ELSE "")
            \o keep_chars(SubSeq(s, 2, Len(s)), class)

RECURSIVE digits_value(_)
\* the integer a string of digits spells
digits_value(s) ==
    IF Len(s) = 0 THEN 0
    ELSE digits_value(SubSeq(s, 1, Len(s) - 1)) * 10 + Digit(CharAt(s, Len(s)))

RECURSIVE Pow10(_)
Pow10(k) == IF k = 0 THEN 1 ELSE 10 * Pow10(k - 1)

\* the text of a float literal without its sign
unsigned(s) == IF StartsWith(s, "-") THEN SubSeq(s, 2, Len(s)) ELSE s

\* float(s) succeeds, for s made of digits, dots and minus signs: an optional
\* sign, then digits with at most one dot among them and at least one digit
float_ok(s) ==
    LET body == unsigned(s)
        dots == { i \in 1..Len(body) : CharAt(body, i) = "." }
    IN  /\ Cardinality(dots) <= 1
        /\ \A i \in (1..Len(body)) \ dots : CharAt(body, i) \in DigitChars
        /\ Len(body) > Cardinality(dots)

\* float(s), when it succeeds
float_of(s) ==
    LET body == unsigned(s)
        dots == { i \in 1..Len(body) : CharAt(body, i) = "." }
        dot == IF dots = {} THEN Len(body) + 1 ELSE CHOOSE i \in dots : TRUE
        whole == SubSeq(body, 1, dot - 1)
        fraction == SubSeq(body, dot + 1, Len(body))
        magnitude == Rat(digits_value(whole \o fraction), Pow10(Len(fraction)))
    IN  IF StartsWith(s, "-") THEN RNeg(magnitude) ELSE magnitude

\* a sign rule that ignores the parentheses
negative_never(text) == FALSE

\* xlsx_parser_dfp.py 83, pdf_parser_dfp.py 63
negative(text) == StartsWith(text, "(") /\ EndsWith(text, ")")

\* xlsx_parser_dfp.py 85-88, pdf_parser_dfp.py 65-68: the decimal comma
\* becomes a point and the thousands dots go
decimal_point(text) ==
    IF Contains(text, ",")
    THEN replace_char(replace_char(text, ".", ""), ",", ".")
    ELSE replace_char(text, ".", "")

\* xlsx_parser_dfp.py 77-96.  A cell is None, the float NaN, a float (whose
\* text is str(value)) or a text.
_parse_number(value) ==
    IF value.kind \in {"none", "nan"} THEN None
    ELSE LET text == Strip(value.text)
         IN  IF text \in {"", "-", "nan", "NaN"} THEN None
             ELSE LET scrubbed ==
                          keep_chars(decimal_point(replace_char(strip_chars(text, {"(", ")"}),
                                                                " ", "")),
                                     DigitChars \cup {".", "-"})
                  IN  IF scrubbed \in {"", "-"} THEN None
                      ELSE IF ~float_ok(scrubbed) THEN None
                      ELSE IF negative(text) THEN RNeg(float_of(scrubbed))
                      ELSE float_of(scrubbed)

RECURSIVE digits_from(_, _, _)
\* the end of the longest run of at most `most` digits that starts at i
\* (i - 1 when there is none)
digits_from(s, i, most) ==
    IF most > 0 /\ i <= Len(s) /\ CharAt(s, i) \in DigitChars
    THEN digits_from(s, i + 1, most - 1)
    ELSE i - 1

RECURSIVE groups_from(_, _)
\* (?:\.\d{3})* after position i: the end of the last group
groups_from(s, i) ==
    IF i + 1 <= Len(s) /\ CharAt(s, i + 1) = "." /\ digits_from(s, i + 2, 3) = i + 4
    THEN groups_from(s, i + 4)
    ELSE i

\* the end of the match of VALUE_RE that starts at i, 0 when there is none
value_match_at(s, i) ==
    LET after_paren == IF i <= Len(s) /\ CharAt(s, i) = "(" THEN i + 1 ELSE i
        after_sign == IF after_paren <= Len(s) /\ CharAt(s, after_paren) = "-"
                      THEN after_paren + 1 ELSE after_paren
        lead == digits_from(s, after_sign, 3)
        grouped == groups_from(s, lead)
        decimals == IF grouped + 1 <= Len(s) /\ CharAt(s, grouped + 1) = ","
                       /\ digits_from(s, grouped + 2, Len(s)) > grouped + 1
                    THEN digits_from(s, grouped + 2, Len(s)) ELSE grouped
        closed == IF decimals + 1 <= Len(s) /\ CharAt(s, decimals + 1) = ")"
                  THEN decimals + 1 ELSE decimals
    IN  IF lead < after_sign THEN 0 ELSE closed

\* pdf_parser_dfp.py 11, 59-62: VALUE_RE.search(...).group(0), "" without a match
value_re_search(s) ==
    LET starts == { i \in 1..Len(s) : value_match_at(s, i) > 0 }
    IN  IF starts = {} THEN ""
        ELSE SubSeq(s, Min(starts), value_match_at(s, Min(starts)))

\* pdf_parser_dfp.py 58-73
_parse_value(text) ==
    LET found == value_re_search(replace_char(text, " ", ""))
        cleaned == decimal_point(strip_chars(found, {"(", ")"}))
    IN  IF found = "" THEN None
        ELSE IF ~float_ok(cleaned) THEN None
        ELSE IF negative(found) THEN RNeg(float_of(cleaned))
        ELSE float_of(cleaned)

\* ---- inputs of the number parsers

\* a spreadsheet cell
TextCell(text) == [kind |-> "text", text |-> text]

\* integer parts in dot-separated groups of three, with the integers they spell
IntegerParts ==
    { [text |-> "0", value |-> 0], [text |-> "5", value |-> 5],
      [text |-> "12", value |-> 12], [text |-> "999", value |-> 999],
      [text |-> "1.234", value |-> 1234], [text |-> "12.345", value |-> 12345],
      [text |-> "1.234.567", value |-> 1234567] }

\* decimal parts after a comma, with the fractions they spell
DecimalParts ==
    { [text |-> "", value |-> Num(0)], [text |-> ",5", value |-> Rat(1, 2)],
      [text |-> ",56", value |-> Rat(14, 25)], [text |-> ",05", value |-> Rat(1, 20)] }

\* the amounts in accounting notation, plain and parenthesized, each with
\* the number it denotes
AccountingAmounts ==
    { [text |-> whole.text \o decimal.text,
       value |-> RAdd(Num(whole.value), decimal.value)] :
         whole \in IntegerParts, decimal \in DecimalParts }
    \cup
    { [text |-> "(" \o whole.text \o decimal.text \o ")",
       value |-> RNeg(RAdd(Num(whole.value), decimal.value))] :
         whole \in IntegerParts, decimal \in DecimalParts }

\* texts that are not amounts in accounting notation: without any digit,
\* with digits that spell no number, and amounts in other notations
OtherTexts ==
    { "", " ", "-", "--", "nan", "NaN", "N/D", "abc", "R$", "(", "()", "(-)", ",", ".",
      "1-2", "5-", "1,2,3", "1,,2", "-1.234,56", " 1.234,56 ", "R$ 1.234,56",
      "1234,56", "12.5", "31/12/2022" }

\* cells that hold no text: None, NaN, and floats with the text str() gives them
OtherCells ==
    { [kind |-> "none", text |-> ""], [kind |-> "nan", text |-> "nan"],
      [kind |-> "float", text |-> "1234.5"], [kind |-> "float", text |-> "100.0"] }

NumCells ==
    { TextCell(a.text) : a \in AccountingAmounts } \cup { TextCell(t) : t \in OtherTexts }
    \cup OtherCells

NumIdle ==
    /\ num_cell = [kind |-> "none", text |-> ""]
    /\ number = None
    /\ pdf_value = None
    /\ numPc = "idle"

NumInit ==
    /\ num_cell \in NumCells
    /\ number = None
    /\ pdf_value = None
    /\ numPc = "input"

\* xlsx_parser_dfp.py 192-193, 319-321: a cell goes through _parse_number
ParseNumber ==
    /\ numPc = "input"
    /\ number' = _parse_number(num_cell)
    /\ numPc' = "number"
    /\ UNCHANGED <<num_cell, pdf_value>>
    /\ UNCHANGED <<reconVars, mergeVars, indVars, normVars, cagrVars, xlsxVars, pdfVars, batchVars, dlVars, sendVars>>

\* pdf_parser_dfp.py 82-83: the same text, as a token of a line, goes through
\* _parse_value
ParseValue ==
    /\ numPc = "number"
    /\ num_cell.kind = "text"
    /\ pdf_value' = _parse_value(num_cell.text)
    /\ numPc' = "value"
    /\ UNCHANGED <<num_cell, number>>
    /\ UNCHANGED <<reconVars, mergeVars, indVars, normVars, cagrVars, xlsxVars, pdfVars, batchVars, dlVars, sendVars>>

NumNext == ParseNumber \/ ParseValue

-----------------------------------------------------------------------------
(* One download with retries: download_manager.py _download_single         *)

\* the greatest value of `retries` explored (main.py 43: --max-retries is
\* any integer of the command line, 3 by default)
MaxRetries == 3

\* what one attempt can meet.  The icon's onclick gives a URL or not; over
\* HTTP the server answers with an error, a body that does not start with
\* "PK" or one that does; over the page's responses a body starting with
\* "PK" is captured or not.  A body is known by its first four bytes:
\* "PK34" is the local file header PK\x03\x04, "PKxx" any other body
\* starting with PK.
HttpAnswers == {"error", "not_pk", "PK34", "PKxx"}

ResponseAnswers == {"nothing", "PK34", "PKxx"}

\* download_manager.py 61-65: what _download_http raises for the answer,
\* "" when it writes the body
download_http_error(answer) ==
    CASE answer = "error" -> "HTTPError"
      [] answer = "not_pk" -> "ValueError: not a ZIP"
      [] OTHER -> ""

\* zip_extract.py 12-17: the file exists, is not empty and starts with
\* PK\x03\x04
validate_zip(file) == file = "PK34"

\* download_manager.py 98-102, 134-135: what the attempt over the page's
\* responses raises, "" when it returns
download_via_response_error(answer) ==
    CASE answer = "nothing" -> "ValueError: no ZIP captured"
      [] ~validate_zip(answer) -> "ValueError: invalid ZIP"
      [] OTHER -> ""

DlIdle ==
    /\ dl_retries = 0
    /\ dl_attempt = 0
    /\ dl_path = "absent"
    /\ dl_log = <<>>
    /\ dl_error = ""
    /\ dlPc = "idle"

DlInit ==
    /\ dl_retries \in 0..MaxRetries
    /\ dl_attempt = 0
    /\ dl_path = "absent"
    /\ dl_log = <<>>
    /\ dl_error = ""
    /\ dlPc = "loop"

\* download_manager.py 137-140: the handler of a failed attempt
AttemptFailed(exc) ==
    /\ dl_log' = Append(dl_log, exc)
    /\ dl_error' = exc
    /\ IF dl_attempt + 1 = dl_retries
       THEN dlPc' = "raised" /\ UNCHANGED dl_attempt
       ELSE dl_attempt' = dl_attempt + 1 /\ UNCHANGED dlPc

\* download_manager.py 130, 136: `return` inside the loop
AttemptReturned ==
    /\ dl_log' = Append(dl_log, "")
    /\ dlPc' = "returned"
    /\ UNCHANGED <<dl_attempt, dl_error>>

\* download_manager.py 111-119: an attempt that raises before any download
\* (the locator or the attribute cannot be read)
LocatorFails ==
    /\ dlPc = "loop"
    /\ dl_attempt < dl_retries
    /\ AttemptFailed("PlaywrightError")
    /\ UNCHANGED <<dl_retries, dl_path>>
    /\ UNCHANGED <<reconVars, mergeVars, indVars, normVars, cagrVars, xlsxVars, pdfVars, batchVars, numVars, sendVars>>

\* download_manager.py 120-130: the onclick gives a URL; _download_http
\* (56-68) writes the body when it starts with "PK", and the attempt returns
DownloadHttp ==
    /\ dlPc = "loop"
    /\ dl_attempt < dl_retries
    /\ \E answer \in HttpAnswers :
          IF download_http_error(answer) # ""
          THEN AttemptFailed(download_http_error(answer)) /\ UNCHANGED dl_path
          ELSE dl_path' = answer /\ AttemptReturned
    /\ UNCHANGED dl_retries
    /\ UNCHANGED <<reconVars, mergeVars, indVars, normVars, cagrVars, xlsxVars, pdfVars, batchVars, numVars, sendVars>>

\* download_manager.py 132-136: no URL; _download_via_response (71-105)
\* writes the captured body, then validate_zip decides
DownloadViaResponse ==
    /\ dlPc = "loop"
    /\ dl_attempt < dl_retries
    /\ \E answer \in ResponseAnswers :
          /\ dl_path' = IF answer = "nothing" THEN dl_path ELSE answer
          /\ IF download_via_response_error(answer) # ""
             THEN AttemptFailed(download_via_response_error(answer))
             ELSE AttemptReturned
    /\ UNCHANGED dl_retries
    /\ UNCHANGED <<reconVars, mergeVars, indVars, normVars, cagrVars, xlsxVars, pdfVars, batchVars, numVars, sendVars>>

\* download_manager.py 109: range(retries) is exhausted and the function
\* returns None
LoopExhausted ==
    /\ dlPc = "loop"
    /\ dl_attempt >= dl_retries
    /\ dlPc' = "returned"
    /\ UNCHANGED <<dl_retries, dl_attempt, dl_path, dl_log, dl_error>>
    /\ UNCHANGED <<reconVars, mergeVars, indVars, normVars, cagrVars, xlsxVars, pdfVars, batchVars, numVars, sendVars>>

DlNext == LocatorFails \/ DownloadHttp \/ DownloadViaResponse \/ LoopExhausted

-----------------------------------------------------------------------------
(* The ingestion client: moniitor_client.py MoniitorClient._send           *)

\* the status codes a POST is answered with in the model
StatusCodes == {200, 400, 401, 403, 429, 500}

\* a response: its status code and whether its body is JSON
Responses == [status : StatusCodes, json : BOOLEAN]

\* what _send returns: the JSON body of a response, or an error of its own
BodyOf(response) == [error |-> "", status |-> response.status, body |-> TRUE]

SendError(error, status) == [error |-> error, status |-> status, body |-> FALSE]

NoResult == SendError("", 0)

\* moniitor_client.py 48-70: what the body of the try returns for a
\* response; NoResult when it falls through to the next attempt, the error
\* "JSONDecodeError" when response.json() raises
send_outcome(response) ==
    CASE response.status = 200 /\ response.json -> BodyOf(response)
      [] response.status \in {401, 403} -> SendError("Unauthorized", response.status)
      [] response.status = 400 /\ response.json -> BodyOf(response)
      [] response.status \in {200, 400} -> SendError("JSONDecodeError", 0)
      [] OTHER -> NoResult

SendIdle ==
    /\ send_retries = 0
    /\ send_attempt = 0
    /\ send_log = <<>>
    /\ send_result = NoResult
    /\ sendPc = "idle"

SendInit ==
    /\ send_retries \in 0..MaxRetries
    /\ send_attempt = 0
    /\ send_log = <<>>
    /\ send_result = NoResult
    /\ sendPc = "loop"

\* moniitor_client.py 41-70: the POST is answered.  When response.json()
\* raises, the exception is requests' JSONDecodeError, a RequestException
\* caught at line 74 (requests from 2.27 on), or the json module's own
\* ValueError, which no handler catches (older requests): the installed
\* version decides.
PostAnswered ==
    /\ sendPc = "loop"
    /\ send_attempt < send_retries
    /\ \E response \in Responses :
          /\ send_log' = Append(send_log, response)
          /\ \E outcome \in {send_outcome(response)} :
                IF outcome = NoResult
                THEN /\ send_attempt' = send_attempt + 1
                     /\ UNCHANGED <<send_result, sendPc>>
                ELSE IF outcome.error = "JSONDecodeError"
                THEN \/ /\ send_attempt' = send_attempt + 1
                        /\ UNCHANGED <<send_result, sendPc>>
                     \/ /\ sendPc' = "raised"
                        /\ UNCHANGED <<send_result, send_attempt>>
                ELSE /\ send_result' = outcome
                     /\ sendPc' = "returned"
                     /\ UNCHANGED send_attempt
    /\ UNCHANGED send_retries
    /\ UNCHANGED <<reconVars, mergeVars, indVars, normVars, cagrVars, xlsxVars, pdfVars, batchVars, numVars, dlVars>>

\* moniitor_client.py 72-75: the POST raises Timeout or another
\* RequestException; the loop goes on
PostFailed ==
    /\ sendPc = "loop"
    /\ send_attempt < send_retries
    /\ \E exc \in {"Timeout", "ConnectionError"} :
          send_log' = Append(send_log, [status |-> 0, json |-> FALSE, exc |-> exc])
    /\ send_attempt' = send_attempt + 1
    /\ UNCHANGED <<send_retries, send_result, sendPc>>
    /\ UNCHANGED <<reconVars, mergeVars, indVars, normVars, cagrVars, xlsxVars, pdfVars, batchVars, numVars, dlVars>>

\* moniitor_client.py 77: range(retries) is exhausted
RetriesExceeded ==
    /\ sendPc = "loop"
    /\ send_attempt >= send_retries
    /\ send_result' = SendError("Max retries exceeded", -1)
    /\ sendPc' = "returned"
    /\ UNCHANGED <<send_retries, send_attempt, send_log>>
    /\ UNCHANGED <<reconVars, mergeVars, indVars, normVars, cagrVars, xlsxVars, pdfVars, batchVars, numVars, dlVars>>

SendNext == PostAnswered \/ PostFailed \/ RetriesExceeded

-----------------------------------------------------------------------------
(* Specifications *)

InitRecon == ReconInit /\ MergeIdle /\ IndIdle /\ NormIdle /\ CagrIdle /\ XlsxIdle /\ PdfIdle /\ BatchIdle /\ NumIdle /\ DlIdle /\ SendIdle

SpecRecon == InitRecon /\ [][ReconNext]_vars

InitMerge == ReconIdle /\ MergeInit /\ IndIdle /\ NormIdle /\ CagrIdle /\ XlsxIdle /\ PdfIdle /\ BatchIdle /\ NumIdle /\ DlIdle /\ SendIdle

SpecMerge == InitMerge /\ [][MergeNext]_vars

InitInd == ReconIdle /\ MergeIdle /\ IndInit /\ NormIdle /\ CagrIdle /\ XlsxIdle /\ PdfIdle /\ BatchIdle /\ NumIdle /\ DlIdle /\ SendIdle

SpecInd == InitInd /\ [][IndNext]_vars

InitNorm == ReconIdle /\ MergeIdle /\ IndIdle /\ NormInit /\ CagrIdle /\ XlsxIdle /\ PdfIdle /\ BatchIdle /\ NumIdle /\ DlIdle /\ SendIdle

SpecNorm == InitNorm /\ [][NormNext]_vars

InitCagr == ReconIdle /\ MergeIdle /\ IndIdle /\ NormIdle /\ CagrInit /\ XlsxIdle /\ PdfIdle /\ BatchIdle /\ NumIdle /\ DlIdle /\ SendIdle

SpecCagr == InitCagr /\ [][CagrNext]_vars

InitXlsx == ReconIdle /\ MergeIdle /\ IndIdle /\ NormIdle /\ CagrIdle /\ XlsxInit /\ PdfIdle /\ BatchIdle /\ NumIdle /\ DlIdle /\ SendIdle

SpecXlsx == InitXlsx /\ [][XlsxNext]_vars

InitPdf == ReconIdle /\ MergeIdle /\ IndIdle /\ NormIdle /\ CagrIdle /\ XlsxIdle /\ PdfInit /\ BatchIdle /\ NumIdle /\ DlIdle /\ SendIdle

SpecPdf == InitPdf /\ [][PdfNext]_vars

InitBatch ==
    ReconIdle /\ MergeIdle /\ IndIdle /\ NormIdle /\ CagrIdle /\ XlsxIdle /\ PdfIdle /\ BatchInit /\ NumIdle /\ DlIdle /\ SendIdle

SpecBatch == InitBatch /\ [][BatchNext]_vars

InitNum ==
    ReconIdle /\ MergeIdle /\ IndIdle /\ NormIdle /\ CagrIdle /\ XlsxIdle /\ PdfIdle /\ BatchIdle /\ NumInit /\ DlIdle /\ SendIdle

SpecNum == InitNum /\ [][NumNext]_vars

InitDl ==
    ReconIdle /\ MergeIdle /\ IndIdle /\ NormIdle /\ CagrIdle /\ XlsxIdle /\ PdfIdle /\ BatchIdle /\ NumIdle /\ DlInit /\ SendIdle

SpecDl == InitDl /\ [][DlNext]_vars

InitSend ==
    ReconIdle /\ MergeIdle /\ IndIdle /\ NormIdle /\ CagrIdle /\ XlsxIdle /\ PdfIdle /\ BatchIdle /\ NumIdle /\ DlIdle
    /\ SendInit

SpecSend == InitSend /\ [][SendNext]_vars

-----------------------------------------------------------------------------
(* Claims about the reconciler (SpecRecon)                                 *)

\* the documents that report fiscal year y
Reporting(y) == { i \in 1..Len(documents) : y \in DOMAIN documents[i].raw_by_year }

\* a document whose reference date is missing or does not parse
Undated(document) ==
    \/ document.reference_date.fmt \in {"none", "empty"}
    \/ ~ \E fmt \in AcceptedFormats : StrptimeOk(document.reference_date, fmt)

\* C1: once consolidate_documents has returned, every fiscal year that some
\* document reports is in the result, and its FieldMapping is the one of a
\* document whose reference date is the latest among the documents reporting
\* that year.
C1_LatestFilingSelected ==
    ReconDone =>
        \A y \in FiscalYears :
            Reporting(y) # {} =>
                /\ y \in DOMAIN consolidated
                /\ \E i \in Reporting(y) :
                      /\ \A j \in Reporting(y) :
                            documents[j].reference_datetime <= documents[i].reference_datetime
                      /\ consolidated[y] = documents[i].raw_by_year[y]

\* C2: a document without a parseable reference date never replaces a year
\* that a dated document supplies, and it supplies every year that no other
\* document reports.
C2_UndatedIsEarliest ==
    ReconDone =>
        \A i \in 1..Len(documents) :
            Undated(documents[i]) =>
                \A y \in DOMAIN documents[i].raw_by_year :
                    /\ (\E j \in Reporting(y) : ~Undated(documents[j])) =>
                          /\ y \in DOMAIN consolidated
                          /\ \E j \in Reporting(y) :
                                /\ ~Undated(documents[j])
                                /\ consolidated[y] = documents[j].raw_by_year[y]
                                /\ selected_reference[y] = documents[j].reference_datetime
                    /\ Reporting(y) = {i} =>
                          /\ y \in DOMAIN consolidated
                          /\ consolidated[y] = documents[i].raw_by_year[y]

\* C8: at every point of consolidate_documents, the FieldMapping held for a
\* year is, whole, the FieldMapping some single input document has for that
\* year.
C8_YearFromOneFiling ==
    \A y \in DOMAIN consolidated :
        \E i \in Reporting(y) : consolidated[y] = documents[i].raw_by_year[y]

\* two dated filings with different fields report the same year, the later
\* one after the earlier one, and the year has been reconciled
C8_Witness ==
    /\ ReconDone
    /\ \E y \in DOMAIN consolidated :
          \E i, j \in Reporting(y) :
              /\ i < j
              /\ documents[i].reference_datetime > datetime_min
              /\ documents[j].reference_datetime > documents[i].reference_datetime
              /\ documents[i].raw_by_year[y] # documents[j].raw_by_year[y]
              /\ consolidated[y] = documents[j].raw_by_year[y]

\* the documents reporting year y whose reference date is the greatest one
Latest(y) ==
    { i \in Reporting(y) :
        \A j \in Reporting(y) :
            documents[j].reference_datetime <= documents[i].reference_datetime }

\* C23: once consolidate_documents has returned, a year whose latest
\* reference date is shared by several dated documents holds the FieldMapping
\* of the one that comes last in the list.
C23_TieGoesToLaterDocument ==
    ReconDone =>
        \A y \in FiscalYears :
            (/\ Cardinality(Latest(y)) > 1
             /\ \A i \in Latest(y) : ~Undated(documents[i])) =>
                /\ y \in DOMAIN consolidated
                /\ consolidated[y] = documents[Max(Latest(y))].raw_by_year[y]

\* the orders in which the documents of the run can be listed
Orders ==
    { p \in [1..Len(documents) -> 1..Len(documents)] :
        \A i, j \in 1..Len(documents) : i # j => p[i] # p[j] }

\* every document is dated and no two documents carry the same date
DistinctDates ==
    /\ \A i \in 1..Len(documents) : ~Undated(documents[i])
    /\ \A i, j \in 1..Len(documents) :
          i # j => documents[i].reference_datetime # documents[j].reference_datetime

\* C26: when the documents are dated with pairwise distinct dates, what
\* consolidate_documents returns for them is what it returns for the same
\* documents listed in any other order.
C26_OrderIndependent ==
    (ReconDone /\ DistinctDates) =>
        \A p \in Orders :
            consolidate_documents([i \in 1..Len(documents) |-> documents[p[i]]])
                = consolidated

\* two dated documents with different dates report the same year with
\* different fields, the later one first in the list, and the run is over
C26_Witness ==
    /\ ReconDone
    /\ DistinctDates
    /\ Len(documents) = 2
    /\ documents[1].reference_datetime > documents[2].reference_datetime
    /\ \E y \in DOMAIN consolidated :
          /\ Reporting(y) = {1, 2}
          /\ documents[1].raw_by_year[y] # documents[2].raw_by_year[y]
          /\ consolidated[y] = documents[1].raw_by_year[y]

-----------------------------------------------------------------------------
(* Claims about one filing's extraction passes (SpecMerge)                 *)

\* the value a YearRecord holds for (year, field), None when it holds none
Cell(rec, y, f) == IF y \in DOMAIN rec THEN Get(rec[y], f) ELSE None

\* C7: first-write-wins.  No step changes a value that the filing's record
\* (or the record of the running extractor) already holds for a (year, field)
\* pair, and a merge gives every pair the filing's record lacks the value the
\* merged record offers for it.
C7_FirstWriteWins ==
    [][ /\ \A y \in MergeYears, f \in MergeFields :
              Cell(doc_raw_by_year, y, f) # None =>
                  Cell(doc_raw_by_year', y, f) = Cell(doc_raw_by_year, y, f)
        /\ passNo' = passNo =>
              \A y \in MergeYears, f \in MergeFields :
                  Cell(parsed_by_year, y, f) # None =>
                      Cell(parsed_by_year', y, f) = Cell(parsed_by_year, y, f)
        /\ passNo' = passNo + 1 =>
              \A y \in MergeYears, f \in MergeFields :
                  Cell(doc_raw_by_year, y, f) = None =>
                      Cell(doc_raw_by_year', y, f) = Cell(parsed_by_year, y, f)
      ]_vars

\* a pass has been merged, and the running pass offers another value for a
\* field the filing holds and a value for a field the filing lacks
C7_Witness ==
    /\ passNo >= 1
    /\ \E y \in MergeYears, f, g \in MergeFields :
          /\ Cell(doc_raw_by_year, y, f) # None
          /\ Cell(parsed_by_year, y, f) # None
          /\ Cell(parsed_by_year, y, f) # Cell(doc_raw_by_year, y, f)
          /\ Cell(doc_raw_by_year, y, g) = None
          /\ Cell(parsed_by_year, y, g) # None

-----------------------------------------------------------------------------
(* Claims about the indicator engine (SpecInd)                             *)

\* the b of the formula "a/b" that calc_trace gives for each ratio
Denominator(name, r, md) ==
    CASE name = "p_l" -> _safe_div(r["lucro_liquido"], r["qtd_acoes_total"])
      [] name = "p_vp" -> _safe_div(r["patrimonio_liquido"], r["qtd_acoes_total"])
      [] name \in {"ev_ebitda", "p_ebitda", "div_liquida_ebitda"} -> ebitda_of(r)
      [] name \in {"p_ebit", "div_liquida_ebit"} -> r["ebit"]
      [] name \in {"p_ativo", "roa", "passivo_ativo", "pl_ativo", "giro_ativos"} ->
            r["ativo_total"]
      [] name = "p_cap_giro" -> capital_giro_of(r)
      [] name = "p_ativo_circ_liq" -> ativo_circ_liq_of(r)
      [] name = "payout_ratio" -> r["lucro_liquido"]
      [] name \in {"roe", "div_liquida_pl"} -> r["patrimonio_liquido"]
      [] name = "roic" -> capital_investido_of(r)
      [] name \in {"m_bruta", "m_ebitda", "m_ebit", "m_liquida"} -> r["receita_liquida"]
      [] name = "liq_corrente" -> r["passivo_circulante"]
      [] name = "vpa" -> r["qtd_acoes_total"]

\* the value of a named raw input of the year, financial or market
InputValue(f) == IF f \in DOMAIN raw THEN raw[f] ELSE market_data[f]

\* the named raw inputs of an indicator that the year lacks
AbsentFields(name) == { f \in SeqSet(RecordedFields(name)) : InputValue(f) = None }

\* C3: every ratio indicator whose denominator is zero or negative is absent.
C3_NonPositiveDenominatorAbsent ==
    indPc = "done" =>
        \A name \in RecordingNames :
            \E b \in {Denominator(name, raw, market_data)} :
                (b # None /\ b.n <= 0) => indicators[name] = None

\* C9: an indicator one of whose direct inputs is absent is absent itself;
\* in particular p_ativo_circ_liq is absent whenever estoques is absent.
C9_AbsentInputAbsentIndicator ==
    indPc = "done" =>
        \A name \in RecordingNames :
            AbsentFields(name) # {} => indicators[name] = None

\* C10: the missing-input list of an indicator that could not be computed
\* holds exactly the named raw inputs of that indicator that were absent.
C10_MissingListExact ==
    indPc = "done" =>
        \A name \in RecordingNames :
            indicators[name] = None =>
                /\ name \in DOMAIN missing_by_indicator
                /\ SeqSet(missing_by_indicator[name]) = AbsentFields(name)

-----------------------------------------------------------------------------
(* Claims about the normalizer (SpecNorm)                                  *)

\* the ticker of the row belongs to the financial universe
IsFinancialRow == get_financial_profile(Strip(Upper(ticker)))

\* C4: after normalize_indicators every percentage indicator is absent or of
\* magnitude at most 1, and a raw percentage value of magnitude above 100 is
\* set absent and counted as an anomaly.
C4_PercentWithinUnit ==
    normPc = "done" =>
        /\ \A key \in PercentKeys :
              normalized[key] = None \/ RLe(RAbs(normalized[key]), Num(1))
        /\ \A key \in PercentKeys :
              (in_indicators[key] # None /\ RLt(Num(100), RAbs(in_indicators[key]))) =>
                  normalized[key] = None /\ key \in anomaly_keys
        /\ anomalies = Cardinality(anomaly_keys)

\* C5: every percentage indicator of magnitude at most 1 comes out unchanged
\* and is not counted as a conversion; every one of magnitude in (1, 100]
\* comes out divided by 100 and is counted as exactly one conversion.
C5_RescaleRule ==
    normPc = "done" =>
        /\ \A key \in PercentKeys :
              in_indicators[key] # None =>
                  /\ RLe(RAbs(in_indicators[key]), Num(1)) =>
                        /\ normalized[key] = in_indicators[key]
                        /\ key \notin converted_keys
                  /\ (RLt(Num(1), RAbs(in_indicators[key]))
                      /\ RLe(RAbs(in_indicators[key]), Num(100))) =>
                        /\ normalized[key] = RDiv(in_indicators[key], Num(100))
                        /\ key \in converted_keys
        /\ conversions = Cardinality(converted_keys)

\* C5 (amended): the same, for every percentage indicator except the
\* EBITDA-named ones of a financial entity, whose value is nulled after the
\* rescaling; those are still counted by the same rule.
C5_RescaleRuleOutsideEbitdaNulling ==
    normPc = "done" =>
        /\ \A key \in PercentKeys :
              in_indicators[key] # None =>
                  /\ RLe(RAbs(in_indicators[key]), Num(1)) =>
                        /\ (IsFinancialRow /\ key \in EbitdaKeys)
                              \/ normalized[key] = in_indicators[key]
                        /\ key \notin converted_keys
                  /\ (RLt(Num(1), RAbs(in_indicators[key]))
                      /\ RLe(RAbs(in_indicators[key]), Num(100))) =>
                        /\ (IsFinancialRow /\ key \in EbitdaKeys)
                              \/ normalized[key] = RDiv(in_indicators[key], Num(100))
                        /\ key \in converted_keys
        /\ conversions = Cardinality(converted_keys)

\* one percentage indicator was left alone and another one was rescaled
C5_Witness ==
    /\ normPc = "done"
    /\ \E key, other \in PercentKeys :
          /\ in_indicators[key] = Rat(2, 25)
          /\ normalized[key] = Rat(2, 25)
          /\ key \notin converted_keys
          /\ in_indicators[other] = Num(45)
          /\ normalized[other] = Rat(9, 20)
          /\ other \in converted_keys
    /\ conversions >= 1

\* C6: for a financial ticker every indicator whose key contains "ebitda" is
\* absent after normalization; for any other ticker an indicator is absent
\* only if it came in absent or was nulled as an anomaly.
C6_FinancialEbitdaNulled ==
    normPc = "done" =>
        /\ IsFinancialRow =>
              \A key \in IndicatorKeys :
                  Contains(key, "ebitda") => normalized[key] = None
        /\ ~IsFinancialRow =>
              \A key \in IndicatorKeys :
                  normalized[key] = None =>
                      in_indicators[key] = None \/ key \in anomaly_keys

\* a financial ticker written with blanks and lower case, whose EBITDA margin
\* was rescaled and then nulled while its EBITDA multiple was nulled as is
C6_Witness ==
    /\ normPc = "done"
    /\ ticker = " itub4 "
    /\ in_indicators["m_ebitda"] = Num(45)
    /\ "m_ebitda" \in converted_keys
    /\ normalized["m_ebitda"] = None
    /\ in_indicators["ev_ebitda"] # None
    /\ normalized["ev_ebitda"] = None

\* C11: EBITDA is EBIT + depreciation + amortization when the three are
\* present and absent otherwise, and ev_ebitda is enterprise value divided by
\* that EBITDA when both are strictly positive.
C11_EbitdaAndEvEbitda ==
    indPc = "done" =>
        \E e \in { IF raw["ebit"] # None /\ raw["depreciacao"] # None
                      /\ raw["amortizacao"] # None
                   THEN RAdd(raw["ebit"], RAdd(raw["depreciacao"], raw["amortizacao"]))
                   ELSE None } :
            /\ ebitda_of(raw) = e
            /\ (e # None /\ e.n > 0 /\ market_data["enterprise_value"] # None
                /\ market_data["enterprise_value"].n > 0) =>
                  indicators["ev_ebitda"] = RDiv(market_data["enterprise_value"], e)

\* EBIT 200, depreciation 30, amortization 20 and enterprise value 2500 gave
\* EV/EBITDA 10
C11_Witness ==
    /\ indPc = "done"
    /\ raw["ebit"] = Num(200)
    /\ raw["depreciacao"] = Num(30)
    /\ raw["amortizacao"] = Num(20)
    /\ market_data["enterprise_value"] = Num(2500)
    /\ ebitda_of(raw) = Num(250)
    /\ indicators["ev_ebitda"] = Num(10)

-----------------------------------------------------------------------------
(* Claims about calculate_cagr (SpecCagr)                                  *)

\* C12: calculate_cagr(series, 5) returns None for every series whose last
\* year minus first year is below 4 or whose first or last value is not
\* strictly positive, and returns a value for every series that spans at
\* least 4 years with strictly positive first and last values.
C12_CagrNeedsFiveYearSpan ==
    cagrPc = "returned" =>
        /\ DOMAIN series = {} => cagr = None
        /\ DOMAIN series # {} =>
              \E first \in {Min(DOMAIN series)}, last \in {Max(DOMAIN series)} :
                  /\ (last - first < 4 \/ series[first].n <= 0 \/ series[last].n <= 0) =>
                        cagr = None
                  /\ (last - first >= 4 /\ series[first].n > 0 /\ series[last].n > 0) =>
                        cagr # None

\* a series of three years with positive values came back absent
C12_Witness ==
    /\ cagrPc = "returned"
    /\ DOMAIN series = {2020, 2021, 2022}
    /\ \A y \in DOMAIN series : series[y].n > 0
    /\ cagr = None

-----------------------------------------------------------------------------
(* Claims about the spreadsheet extractor (SpecXlsx)                       *)

\* the base year in the priority order of the specification: the date of a
\* capital-composition sheet, else the date of any other sheet, else the
\* declared reference year; 0 when none of them gives a year
EstablishedBaseYear ==
    IF infer_workbook_base_year(sheets) # 0 THEN infer_workbook_base_year(sheets)
    ELSE IF \E i \in 1..Len(sheets) : sheets[i].date_year # 0
    THEN sheets[Min({ i \in 1..Len(sheets) : sheets[i].date_year # 0 })].date_year
    ELSE reference_year

\* the sheets read for values that hold the three exercise columns
ReadSheets == SelectSeq(sheet_names(sheets, TRUE), SheetUsed)

\* the value a matched row offers for field f in the column of exercise k
\* (0 the most recent, 1 the one before, 2 the one before that)
ExerciseColumn(k) == IF k = 0 THEN LastColumn ELSE IF k = 1 THEN PrevColumn ELSE Prev2Column

Offers(sheet, j, f, k) ==
    /\ row_field(sheet.rows[j], code_col_of(sheet.columns), desc_col_of(sheet.columns)) = f
    /\ RowValue(sheet.rows[j], ExerciseColumn(k)) # None

Offered(sheet, j, k) ==
    RMul(RowValue(sheet.rows[j], ExerciseColumn(k)),
         Num(_parse_precision(RowText(sheet.rows[j], precision_col_of(sheet.columns)))))

XlsxFields == {"receita_liquida", "depreciacao", "amortizacao"}

\* C13: the base year is the date of the capital-composition sheet, else
\* the date of another sheet, else the declared reference year: the years of
\* the result lie in the window of that year, and the result is not empty
\* when that year exists and a sheet read for values has a matched row with
\* a value.
C13_BaseYearPriority ==
    (xlsxPc = "returned" /\ EstablishedBaseYear # 0) =>
        /\ DOMAIN xlsx_raw_by_year \subseteq allowed_years(EstablishedBaseYear)
        /\ (\E i \in 1..Len(ReadSheets) : \E j \in 1..Len(ReadSheets[i].rows) :
               \E f \in XlsxFields, k \in 0..2 : Offers(ReadSheets[i], j, f, k)) =>
              xlsx_raw_by_year # EmptyMap

\* C14: with no base year to be had from the capital-composition sheet, from
\* another sheet or from the caller, parse_xlsx returns the empty YearRecord
\* and the currency unit "BRL".
C14_NoBaseYearEmptyResult ==
    (xlsxPc = "returned" /\ EstablishedBaseYear = 0) =>
        /\ xlsx_raw_by_year = EmptyMap
        /\ xlsx_currency_unit = "BRL"

\* a workbook without any date, read without a reference year, whose sheet
\* has a matched row in thousands, came back empty
C14_Witness ==
    /\ xlsxPc = "returned"
    /\ EstablishedBaseYear = 0
    /\ \E i \in 1..Len(ReadSheets) : \E j \in 1..Len(ReadSheets[i].rows) :
          /\ Offers(ReadSheets[i], j, "receita_liquida", 0)
          /\ RowText(ReadSheets[i].rows[j], "precisao") = "Mil"
    /\ \E i \in 1..Len(sheets) : IsCapitalSheet(sheets[i])
    /\ xlsx_raw_by_year = EmptyMap
    /\ xlsx_currency_unit = "BRL"

\* C15: for every field and every one of the three exercises, the result
\* holds under base year - k the value of the exercise-k column of the first
\* matched row that has one, whatever the order of the columns, and the
\* result has no year outside {base, base - 1, base - 2}.
C15_ColumnsToYears ==
    (xlsxPc = "returned" /\ infer_workbook_base_year(sheets) # 0) =>
        \E base \in {infer_workbook_base_year(sheets)} :
            /\ DOMAIN xlsx_raw_by_year \subseteq allowed_years(base)
            /\ \A i \in 1..Len(ReadSheets) : \A j \in 1..Len(ReadSheets[i].rows) :
                  \A f \in XlsxFields, k \in 0..2 :
                      (/\ Offers(ReadSheets[i], j, f, k)
                       /\ ~ \E i2 \in 1..i : \E j2 \in 1..Len(ReadSheets[i2].rows) :
                              (i2 < i \/ j2 < j) /\ Offers(ReadSheets[i2], j2, f, k)) =>
                          Cell(xlsx_raw_by_year, base - k, f) = Offered(ReadSheets[i], j, k)

ShareFields == {"qtd_acoes_total", "qtd_acoes_emitidas", "qtd_acoes_tesouraria"}

\* C16: a share count is held under the base year only, and qtd_acoes_total
\* is held only when a capital-composition sheet gives an issued and a
\* treasury count with issued >= treasury, and is then issued - treasury.
C16_SharesUnderBaseYearOnly ==
    xlsxPc = "returned" =>
        /\ \A y \in DOMAIN xlsx_raw_by_year : \A f \in ShareFields :
              Get(xlsx_raw_by_year[y], f) # None => y = infer_workbook_base_year(sheets)
        /\ \A y \in DOMAIN xlsx_raw_by_year :
              Get(xlsx_raw_by_year[y], "qtd_acoes_total") # None =>
                  \E i \in 1..Len(sheets) :
                      /\ IsCapitalSheet(sheets[i])
                      /\ RowValue(sheets[i].rows[1], IssuedColumn) # None
                      /\ RowValue(sheets[i].rows[1], TreasuryColumn) # None
                      /\ RLe(RowValue(sheets[i].rows[1], TreasuryColumn),
                             RowValue(sheets[i].rows[1], IssuedColumn))
                      /\ xlsx_raw_by_year[y]["qtd_acoes_total"] =
                            RSub(RowValue(sheets[i].rows[1], IssuedColumn),
                                 RowValue(sheets[i].rows[1], TreasuryColumn))

\* 100 issued and 10 treasury shares gave 90 outstanding shares under the base
\* year, and the year before holds statement values but no share count
C16_Witness ==
    /\ xlsxPc = "returned"
    /\ Cell(xlsx_raw_by_year, 2022, "qtd_acoes_total") = Num(90)
    /\ Cell(xlsx_raw_by_year, 2022, "qtd_acoes_emitidas") = Num(100)
    /\ Cell(xlsx_raw_by_year, 2022, "qtd_acoes_tesouraria") = Num(10)
    /\ 2021 \in DOMAIN xlsx_raw_by_year
    /\ \A f \in ShareFields : Cell(xlsx_raw_by_year, 2021, f) = None
-----------------------------------------------------------------------------
(* Claims about the document text extractor (SpecPdf)                      *)

\* the lines of the document, as <<page, line>> positions in reading order
Positions == { <<p, l>> : p \in 1..Len(pdf_pages), l \in 1..4 + MaxBodyLines }

LinePositions == { pos \in Positions : pos[2] <= Len(pdf_pages[pos[1]]) }

Before(a, b) == a[1] < b[1] \/ (a[1] = b[1] /\ a[2] < b[2])

LineAt(pos) == pdf_pages[pos[1]][pos[2]]

\* the years in force at a line: those of the first line of its page, up to it, that has any
YearsAt(pos) ==
    LET dated == { l \in 1..pos[2] : pdf_pages[pos[1]][l].years # <<>> }
    IN  IF dated = {} THEN <<>> ELSE pdf_pages[pos[1]][Min(dated)].years

\* the page of the line is one the extractor reads
PageRead(p) == page_scopes[p] \in selected_scopes /\ _detect_section(pdf_pages[p]) # ""

\* the line yields amounts for field fld: it is read, matched, and has a token for every year
Yields(pos, fld) ==
    /\ PageRead(pos[1])
    /\ YearsAt(pos) # <<>>
    /\ line_field(_detect_section(pdf_pages[pos[1]]), LineAt(pos)) = fld
    /\ Len(_extract_values_from_line(LineAt(pos))) >= Len(YearsAt(pos))

IsCombined(pos) ==
    /\ Yields(pos, "depreciacao")
    /\ Contains(Lower(LineAt(pos).description), "amortiza")

\* the amount the line gives for year y, in the unit of the document
AmountFor(pos, y) ==
    LET ys == YearsAt(pos)
        tokens == _extract_values_from_line(LineAt(pos))
        i == Min({ j \in 1..Len(ys) : ys[j] = y })
    IN  Num(tokens[Len(tokens) - Len(ys) + i] * pdf_multiplier)

InYears(pos, y) == \E j \in 1..Len(YearsAt(pos)) : YearsAt(pos)[j] = y

PdfYears == {2021, 2022}

\* C17: when the first line giving an amortization for a year is a combined
\* depreciation-and-amortization line and a separate amortization line follows it, the
\* returned amortization of the year is the amount of that separate line, not zero.
C17_SeparateAmortizationReplacesZero ==
    pdfPc = "returned" =>
        \A y \in PdfYears : \A c \in LinePositions, s \in LinePositions :
            ( /\ IsCombined(c) /\ InYears(c, y)
              /\ Yields(s, "amortizacao") /\ InYears(s, y)
              /\ Before(c, s)
              /\ \A e \in LinePositions :
                    Yields(e, "amortizacao") /\ InYears(e, y) => e = s \/ Before(s, e) )
            => Cell(pdf_by_year, y, "amortizacao") = AmountFor(s, y)
\* the scope of the document, from the scopes detected on its pages
DocumentScope ==
    IF \E p \in 1..Len(page_scopes) : page_scopes[p] = "consolidado" THEN "consolidado"
    ELSE IF \E p \in 1..Len(page_scopes) : page_scopes[p] = "individual" THEN "individual"
    ELSE ""

\* C18: the document scope is consolidated if any page is detected as consolidated, else
\* individual if any page is individual, else unscoped; and the returned YearRecord changes
\* only while a page whose own detected scope is the document scope is being read.
C18_ScopeSelection ==
    /\ [](pdfPc # "open" => selected_scopes = {DocumentScope})
    /\ [][pdf_by_year' # pdf_by_year
            => pageNo \in 1..Len(pdf_pages) /\ page_scopes[pageNo] = DocumentScope]_vars

\* a two-page document returned with values, whose first page is individual and is passed
\* over because the second one is consolidated
C18_Witness ==
    /\ pdfPc = "returned"
    /\ Len(pdf_pages) = 2
    /\ page_scopes[1] = "individual"
    /\ _detect_section(pdf_pages[1]) = "dfc"
    /\ DocumentScope = "consolidado"
    /\ pdf_by_year # EmptyMap
    /\ \A y \in DOMAIN pdf_by_year : Get(pdf_by_year[y], "depreciacao") # Num(20)
\* the cells a line with field fld and years ys may fill
LineCells(ys, fld, description) ==
    { <<ys[i], fld>> : i \in 1..Len(ys) } \cup
    IF fld = "depreciacao" /\ Contains(Lower(description), "amortiza")
    THEN { <<ys[i], "amortizacao">> : i \in 1..Len(ys) }
    ELSE {}

CellsOf(rec) == { <<y, g>> : y \in DOMAIN rec, g \in UNION { DOMAIN rec[z] : z \in DOMAIN rec } }

-----------------------------------------------------------------------------
(* Claims about the batch (SpecBatch)                                      *)

TerminalStatuses == {"success", "partial", "failed"}

\* C20: no exception leaves main, every result written carries a terminal status (never
\* "pending") with its error list, and when main returns one result has been written for
\* every company of the listing, in order.
C20_EveryCompanyGetsResult ==
    /\ batchPc # "crashed"
    /\ \A i \in 1..Len(written) : written[i].row = i /\ written[i].status \in TerminalStatuses
    /\ batchPc = "done" => Len(written) = Len(companies)
\* the filings of the running company
RowFilings == companies[rowNo].filings

\* the filing cannot be parsed: unpacking, the workbook or one of the PDFs read raises
Unparseable(filing) ==
    \/ filing.zip = "raises"
    \/ filing.xlsx = "raises"
    \/ filing.xlsx # "years" /\ \E k \in 1..Len(filing.pdfs) : filing.pdfs[k] = "raises"

\* the years the filing gives when each of its extractors that does not raise is read
ParseableYears(filing) ==
    IF filing.zip = "raises" \/ filing.xlsx = "raises" THEN {}
    ELSE IF filing.xlsx = "years" THEN FilingYear
    ELSE UNION { pdf_years(filing.pdfs[k]) : k \in 1..Len(filing.pdfs) }

\* the run of the company has passed the retrieval and reached the writing of its result
Retrieved ==
    /\ batchPc = "write"
    /\ companies[rowNo].cod_cvm # ""
    /\ companies[rowNo].site = "ok"

\* C21: when the result of a company whose filings were retrieved is written, every filing
\* has been extracted (an unparseable one giving no data and an error on the result, the
\* others their years) and the years of all of them have been reconciled: the run did not
\* stop at the filing that failed.
C21_FilingFailureIsLocal ==
    Retrieved =>
        /\ Len(documents_data) = Len(RowFilings)
        /\ \A i \in 1..Len(RowFilings) : documents_data[i] = ParseableYears(RowFilings[i])
        /\ (\E i \in 1..Len(RowFilings) : Unparseable(RowFilings[i])) => result.errors # <<>>

\* C22: a row without company code makes no call of a collaborator, and its result is
\* written with exactly one error and the status failed.
C22_MissingCodeSkipped ==
    /\ \A i \in 1..Len(written) :
          companies[i].cod_cvm = "" =>
              /\ written[i].errors = <<"Codigo CVM ausente no CSV">>
              /\ written[i].status = "failed"
    /\ \A i \in 1..Len(companies) :
          companies[i].cod_cvm = "" /\ rowNo > i => Len(written) >= i /\ written[i].row = i
    /\ ( /\ batchPc \in {"code", "site", "filing", "pdf", "consolidate", "send", "write"}
         /\ companies[rowNo].cod_cvm = "" )
       => batchPc \in {"code", "write"} /\ calls = <<>>

\* the second row of a listing has no code: its result is written after the result of a
\* first row that made calls
C22_Witness ==
    /\ batchPc = "done"
    /\ Len(companies) = 2
    /\ companies[1].cod_cvm # ""
    /\ companies[2].cod_cvm = ""
    /\ Len(written) = 2
    /\ written[2].status = "failed"

\* C25: a company whose filings give at least one reconciled year, with no error recorded
\* by the retrieval or the extraction and with a configured client, ends with the status
\* success.
C25_SuccessWithYears ==
    ( /\ Retrieved
      /\ configured
      /\ RowFilings # <<>>
      /\ \A i \in 1..Len(RowFilings) : ~Unparseable(RowFilings[i])
      /\ \E i \in 1..Len(RowFilings) : ParseableYears(RowFilings[i]) # {} )
    => result.status = "success"

\* C28: parse_dfp_pdf is called only for a filing whose archive has no workbook or whose
\* workbook gave no year, and a filing whose workbook gave a year enters documents_data
\* with the years of the workbook alone.
C28_SingleExtractorPerFiling ==
    [][ /\ Len(calls') > Len(calls) /\ calls'[Len(calls')] = "parse_dfp_pdf"
           => RowFilings[filingNo].xlsx \in {"none", "empty"}
        /\ ( /\ batchPc \in {"filing", "pdf"}
             /\ Len(documents_data') > Len(documents_data)
             /\ RowFilings[filingNo].xlsx = "years" )
           => /\ documents_data'[Len(documents_data')] = FilingYear
              /\ calls'[Len(calls')] = "parse_xlsx"
      ]_vars

\* a filing whose workbook gave a year and that holds a PDF has entered documents_data,
\* and no PDF was parsed for the company
C28_Witness ==
    /\ batchPc = "filing"
    /\ filingNo = 2
    /\ companies[rowNo].filings[1].xlsx = "years"
    /\ companies[rowNo].filings[1].pdfs # <<>>
    /\ documents_data = <<FilingYear>>
    /\ \A k \in 1..Len(calls) : calls[k] # "parse_dfp_pdf"

-----------------------------------------------------------------------------
(* Claims about the normalizer's frame (SpecNorm)                          *)

\* the keys whose name is not percentage-semantic
NonPercentKeys == { key \in IndicatorKeys : ~is_percent_indicator(key) }

\* C27: the multiples, per-share values and growth rates are not
\* percentage-semantic; after normalize_indicators the output has exactly the
\* input's keys, and every indicator that came in absent or whose name is
\* not percentage-semantic has its input value, except the EBITDA-named ones
\* of a financial entity; no step changes the input mapping.
C27_OnlyPercentagesChange ==
    /\ [](/\ {"p_l", "p_vp", "roic", "liq_corrente", "vpa",
              "cagr_receitas_5", "cagr_lucros_5"} \subseteq NonPercentKeys
          /\ normPc = "done" =>
                /\ DOMAIN normalized = DOMAIN in_indicators
                /\ \A key \in DOMAIN in_indicators :
                      (in_indicators[key] = None \/ key \in NonPercentKeys) =>
                          \/ normalized[key] = in_indicators[key]
                          \/ key \in EbitdaKeys /\ IsFinancialRow)
    /\ [][in_indicators' = in_indicators]_vars

\* a non-financial row whose return on invested capital came in as 45 and
\* whose return on equity came in as 30: the first is kept, the second rescaled
C27_Witness ==
    /\ normPc = "done"
    /\ ticker = "PETR4"
    /\ in_indicators["roic"] = Num(45)
    /\ normalized["roic"] = Num(45)
    /\ in_indicators["roe"] = Num(30)
    /\ normalized["roe"] = Rat(3, 10)
    /\ "roe" \in converted_keys
    /\ in_indicators["ev_ebitda"] # None
    /\ normalized["ev_ebitda"] = in_indicators["ev_ebitda"]

-----------------------------------------------------------------------------
(* Claims about the number parsers (SpecNum)                               *)

DigitChar(k) == SubSeq("0123456789", k + 1, k + 1)

RECURSIVE grouped_digits(_)
\* a natural number in groups of three digits separated by dots
grouped_digits(k) ==
    IF k >= 1000
    THEN grouped_digits(k \div 1000) \o "." \o DigitChar((k \div 100) % 10)
            \o DigitChar((k \div 10) % 10) \o DigitChar(k % 10)
    ELSE IF k >= 100 THEN DigitChar(k \div 100) \o DigitChar((k \div 10) % 10) \o DigitChar(k % 10)
    ELSE IF k >= 10 THEN DigitChar(k \div 10) \o DigitChar(k % 10)
    ELSE DigitChar(k)

\* the canonical serialization of an amount of whole cents: dot-separated
\* thousands, a comma and two decimals, parentheses around a negative amount
format_accounting(x) ==
    LET cents == (Abs(x.n) \div x.d) * 100 + ((Abs(x.n) % x.d) * 100) \div x.d
        body == grouped_digits(cents \div 100) \o ","
                    \o DigitChar((cents \div 10) % 10) \o DigitChar(cents % 10)
    IN  IF x.n < 0 THEN "(" \o body \o ")" ELSE body

\* no digit occurs in the text
Digitless(text) == \A i \in 1..Len(text) : CharAt(text, i) \notin DigitChars

\* C24: _parse_number and _parse_value give, for every amount in accounting
\* notation, the number it denotes (negated when parenthesized), and parsing
\* the canonical serialization of that number gives the number again; for a
\* text without any digit, and for a cell that is None or NaN, they give None.
C24_AccountingNotationRoundTrip ==
    /\ numPc \in {"number", "value"} =>
          /\ \A a \in AccountingAmounts :
                num_cell = TextCell(a.text) =>
                    /\ number = a.value
                    /\ _parse_number(TextCell(format_accounting(number))) = number
          /\ (num_cell.kind = "text" /\ Digitless(num_cell.text)) => number = None
          /\ num_cell.kind \in {"none", "nan"} => number = None
    /\ numPc = "value" =>
          /\ \A a \in AccountingAmounts :
                num_cell = TextCell(a.text) =>
                    /\ pdf_value = a.value
                    /\ _parse_value(format_accounting(pdf_value)) = pdf_value
          /\ Digitless(num_cell.text) => pdf_value = None

\* "(1.234,56)" has been read as -1234.56 by both parsers
C24_Witness ==
    /\ numPc = "value"
    /\ num_cell = TextCell("(1.234,56)")
    /\ number = Rat(-30864, 25)
    /\ pdf_value = Rat(-30864, 25)
    /\ format_accounting(number) = "(1.234,56)"

-----------------------------------------------------------------------------
(* Claims about one download (SpecDl)                                      *)

\* C29: whatever retries is and whatever the attempts meet, _download_single
\* returns only right after its first successful attempt, with a downloaded
\* file at path, and raises only the error of the last of exactly `retries`
\* failed attempts.
C29_ReturnsOnlyWithDownload ==
    /\ dlPc = "returned" =>
          /\ Len(dl_log) >= 1
          /\ dl_log[Len(dl_log)] = ""
          /\ \A i \in 1..(Len(dl_log) - 1) : dl_log[i] # ""
          /\ dl_path # "absent"
    /\ dlPc = "raised" =>
          /\ Len(dl_log) = dl_retries
          /\ \A i \in 1..Len(dl_log) : dl_log[i] # ""
          /\ dl_error = dl_log[Len(dl_log)]

-----------------------------------------------------------------------------
(* Claims about the ingestion client (SpecSend)                            *)

\* the statuses that end the loop
FinalStatuses == {200, 400, 401, 403}

\* C30: _send issues at most `retries` POSTs and never raises; a response
\* with status 200, 400, 401 or 403 is the last POST and gives the result
\* (the body for 200 and 400, the error Unauthorized for 401 and 403); a
\* return without such a response comes after exactly `retries` timeouts,
\* connection errors or other statuses and gives
\* {error: 'Max retries exceeded', status: -1}.
C30_FinalStatusesEndTheLoop ==
    /\ Len(send_log) <= send_retries
    /\ sendPc # "raised"
    /\ \A i \in 1..Len(send_log) :
          send_log[i].status \in FinalStatuses =>
              /\ i = Len(send_log)
              /\ sendPc = "returned"
              /\ send_result.status = send_log[i].status
              /\ send_result.error = IF send_log[i].status \in {401, 403}
                                     THEN "Unauthorized" ELSE ""
    /\ (sendPc = "returned"
        /\ \A i \in 1..Len(send_log) : send_log[i].status \notin FinalStatuses) =>
              /\ Len(send_log) = send_retries
              /\ send_result = SendError("Max retries exceeded", -1)

====
